---- MODULE Spec2Model ----
(***************************************************************************)
(* A model of the Kaspa HD wallet (src/wallet/wallet.ts): the transaction  *)
(* builder (composeTx, estimateTransaction, buildTransaction,              *)
(* submitTransaction) over the wallet's UTXO set, change-address chain,    *)
(* TxStore and blue score; the sync lifecycle (sync, initBlueScoreSync,    *)
(* onApiConnect, onApiDisconnect), address discovery (addressDiscovery,    *)
(* findUtxos) and the balance bookkeeping (adjustBalance, emitBalance).    *)
(*                                                                         *)
(* JavaScript runs every handler to its next `await`; each action below is *)
(* one such run.  UtxoSet, AddressManager, TXStore and the kaspacore       *)
(* Transaction class are not part of src/; they are modelled from spec.md  *)
(* (sections 3, 4.1-4.5) and marked so in MODEL_MAP.json.                  *)
(***************************************************************************)
EXTENDS Integers, Sequences, FiniteSets, TLC

VARIABLES
    utxoInfo,       \* node's view: outpoint -> [satoshis, blockBlueScore]
    confirmed,      \* utxoSet.utxos.confirmed (keys)
    pending,        \* utxoSet.utxos.pending (keys)
    used,           \* utxoSet.utxos.used (keys)
    inUse,          \* utxoSet.inUse: sequence of outpoint ids
    balance,        \* [available, pending]: wallet[BALANCE_CONFIRMED/PENDING]
    blueScore,      \* wallet.blueScore
    defaultFee,     \* wallet.defaultFee (per byte)
    changeAddress,  \* addressManager.changeAddress: [counter, cursor]
    lastAddressNotification, \* change index last sent with new-address
    txStore,        \* wallet.txStore: set of entries keyed by id
    emitted,        \* events emitted by the handler that ran last, in order
    calls,          \* the API calls in flight: call id -> call record
    rpcTxs,         \* transactions handed to rpc.submitTransaction so far
    balanceTotal,   \* wallet[BALANCE_TOTAL]
    lastBalanceNotification,     \* [available, pending] notified last
    disableBalanceNotifications, \* wallet.disableBalanceNotifications
    syncInProggress,             \* wallet.syncInProggress
    history,        \* history: sums of the deltas given to adjustBalance,
                    \* and the pair the last balance-update carried
    batches,        \* history: the address batches of the findUtxos run last
    notified,       \* payloads of the balance-update and ready events of
                    \* the handler that ran last, in order
    receiveAddress, \* addressManager.receiveAddress: [counter, cursor]
    lastReceiveNotification,     \* receive index last sent with new-address
    owner,          \* node's view: outpoint -> address holding it
    utxoStorage,    \* addresses with an entry in utxoSet.utxoStorage
    discoveries,    \* findUtxos / addressDiscovery calls: id -> record
    connected,      \* wallet.connected: "undefined", "true" or "false"
    connectSignal,  \* wallet.connectSignal is resolved
    syncOnce,       \* wallet.syncOnce: "undefined", "true" or "false"
    syncSignal,     \* wallet.syncSignal: id of the deferred, 0 = undefined
    resolvedSignals,             \* ids of the sync signals resolved so far
    syncVirtualSelectedParentBlueScoreStarted,
    blueScoreSubscriptions,      \* blue-score subscriptions on the connection
    utxoSubscriptions,           \* utxoSubscribe() calls on the connection
    syncs,          \* the sync calls: id -> record
    wallets,        \* the Wallet objects made: id -> [HDWallet, mnemonic,
                    \* uid, network] and how each was made
    exported,       \* the strings export() has returned: id -> record
    addressManager, \* wallet.addressManager: which instance it is, and
                    \* whether the wallet's new-address handler is on it
    addressManagerInitialized,   \* wallet.addressManagerInitialized
    options,        \* wallet.options: [skipSyncBalance]
    addressSyncs    \* the addresses handed to utxoSet.syncAddressesUtxos
                    \* by the new-address handler so far

txVars == <<utxoInfo, confirmed, pending, used, inUse, balance, blueScore,
            defaultFee, changeAddress, lastAddressNotification, txStore,
            emitted, calls, rpcTxs>>

balanceVars == <<balanceTotal, lastBalanceNotification,
                 disableBalanceNotifications, syncInProggress, history,
                 batches, notified>>

discoveryVars == <<receiveAddress, lastReceiveNotification, owner,
                   utxoStorage, discoveries>>

syncVars == <<connected, connectSignal, syncOnce, syncSignal,
              resolvedSignals, syncVirtualSelectedParentBlueScoreStarted,
              blueScoreSubscriptions, utxoSubscriptions, syncs>>

(* What the transaction builder and the blue-score handler leave alone. *)
lifecycleVars == <<balanceVars, discoveryVars, syncVars>>

identityVars == <<wallets, exported>>

managerVars == <<addressManager, addressManagerInitialized, options,
                 addressSyncs>>

vars == <<txVars, lifecycleVars, identityVars, managerVars>>

----------------------------------------------------------------------------
(* Bounds of the model *)

NumUtxos == 3
MaxCalls == 2
MaxBlueScore == 2
MaxAdjusts == 3
MaxSyncs == 2
MaxDiscoveries == 2
MaxIndex == 3
MaxThreshold == 2
DiscoveryExtent == 2
MaxWallets == 3
MaxExports == 2
MaxKeys == 3
MaxManagers == 2

Outpoints == 1..NumUtxos
CallIds == 1..MaxCalls
SyncIds == 1..MaxSyncs
DiscoveryIds == 1..MaxDiscoveries
Chains == {"receive", "change"}
WalletIds == 1..MaxWallets
ExportIds == 1..MaxExports
Keys == 1..MaxKeys

----------------------------------------------------------------------------
(* Program constants *)

MaxMassAcceptedByBlock == 500000
SigPad == 151
SigAdj == 2

(* Serialized sizes and masses of kaspacore.Transaction (external library). *)
HeaderSize == 40
InputSize == 45
SigScriptSize == 66
OutputSize == 43
StandaloneMass == 1000
InputMass == 180000

(* Confirmations an output needs before it is spendable (network config). *)
Maturity == 1

----------------------------------------------------------------------------
(* Small helpers *)

Range(s) == {s[i] : i \in 1..Len(s)}

RECURSIVE SumSat(_, _)
SumSat(S, info) ==
    IF S = {} THEN 0
    ELSE LET o == CHOOSE x \in S : TRUE
         IN info[o].satoshis + SumSat(S \ {o}, info)

(* Largest satoshis first, outpoint id as tiebreak (spec 4.2 "Ordering"). *)
Largest(S, info) ==
    CHOOSE o \in S : \A x \in S :
        \/ info[o].satoshis > info[x].satoshis
        \/ info[o].satoshis = info[x].satoshis /\ o <= x

RECURSIVE SortDesc(_, _)
SortDesc(S, info) ==
    IF S = {} THEN <<>>
    ELSE LET o == Largest(S, info)
         IN <<o>> \o SortDesc(S \ {o}, info)

RECURSIVE SeqSum(_, _)
SeqSum(s, info) ==
    IF s = <<>> THEN 0 ELSE info[Head(s)].satoshis + SeqSum(Tail(s), info)

(* Shortest prefix of list whose satoshis reach target (whole list if none). *)
RECURSIVE TakeUntil(_, _, _, _)
TakeUntil(list, target, info, acc) ==
    IF list = <<>> \/ SeqSum(acc, info) >= target THEN acc
    ELSE TakeUntil(Tail(list), target, info, Append(acc, Head(list)))

FirstN(s, n) == SubSeq(s, 1, IF n < Len(s) THEN n ELSE Len(s))

----------------------------------------------------------------------------
(* UtxoSet (spec 4.2) *)

IsMatureAt(o, score, info) == score >= info[o].blockBlueScore + Maturity

(* selectUtxos(txAmount): greedy, largest first, from the confirmed outputs
   that are not reserved in inUse; fails when they do not reach txAmount. *)
SelectUtxos(txAmount, w) ==
    LET list == SortDesc(w.confirmed \ Range(w.inUse), w.info)
        ids == TakeUntil(list, txAmount, w.info, <<>>)
    IN [ok |-> SeqSum(ids, w.info) >= txAmount,
        utxoIds |-> ids,
        amount |-> SeqSum(ids, w.info)]

(* collectUtxos(maxCount): up to maxCount confirmed outputs, largest first;
   amount is their sum. *)
CollectUtxos(maxCount, w) ==
    LET list == SortDesc(w.confirmed \ Range(w.inUse), w.info)
        ids == FirstN(list, maxCount)
    IN [ok |-> TRUE,
        utxoIds |-> ids,
        amount |-> SeqSum(ids, w.info)]

----------------------------------------------------------------------------
(* AddressManager.changeAddress (spec 3, 4.1) *)

(* next(): derive the next index; counter moves forward, cursor follows. *)
ChangeNext(ca) == [counter |-> ca.counter + 1, cursor |-> ca.counter + 1]

(* reverse(): roll the chain back by one after a failed build. *)
ChangeReverse(ca) ==
    [counter |-> IF ca.counter > 0 THEN ca.counter - 1 ELSE 0,
     cursor |-> IF ca.cursor > 0 THEN ca.cursor - 1 ELSE 0]

----------------------------------------------------------------------------
(* kaspacore.Transaction as used by composeTx (spec 4.3 step 3) *)

NoTx == [inputs |-> {}, amount |-> 0, change |-> 0]

(* from(utxos).to(toAddr, amount).fee(fee).change(changeAddr): one output of
   amount, one change output of inputs - amount - fee, omitted when 0.  An
   output amount is unsigned: a negative amount or change fails. *)
Transaction(utxoIds, amount, fee, info) ==
    LET change == SeqSum(utxoIds, info) - amount - fee
    IN IF amount < 0 THEN [ok |-> FALSE, err |-> "amount", tx |-> NoTx]
       ELSE IF change < 0 THEN [ok |-> FALSE, err |-> "change", tx |-> NoTx]
       ELSE [ok |-> TRUE, err |-> "none",
             tx |-> [inputs |-> Range(utxoIds), amount |-> amount,
                     change |-> change]]

NumOutputs(tx) == IF tx.change > 0 THEN 2 ELSE 1

SumOutputs(tx) == tx.amount + tx.change

(* tx.toBuffer(skipSign).length: the skeleton, with the signature scripts
   only when the transaction is signed. *)
BufferLength(tx, skipSign) ==
    HeaderSize
    + Cardinality(tx.inputs) * (InputSize + IF skipSign THEN 0 ELSE SigScriptSize)
    + NumOutputs(tx) * OutputSize

(* tx.getMass() *)
TxMass(tx) == StandaloneMass + Cardinality(tx.inputs) * InputMass

----------------------------------------------------------------------------
(* Wallet.composeTx *)

(* composeTx once the inputs are selected: derive the change address, build
   the transaction, and reverse the derivation when building throws. *)
ComposeBuilt(p, sel, amount, ca, ca1, t) ==
    IF ~sel.ok
    THEN [ok |-> FALSE, err |-> "funds", tx |-> NoTx, utxoIds |-> <<>>,
          amount |-> amount, fee |-> p.fee, ca |-> ca,
          next |-> 0, rev |-> 0, derived |-> <<>>]
    ELSE IF ~t.ok
    THEN [ok |-> FALSE, err |-> t.err, tx |-> NoTx, utxoIds |-> <<>>,
          amount |-> amount, fee |-> p.fee,
          ca |-> IF p.changeAddrOverride THEN ca1 ELSE ChangeReverse(ca1),
          next |-> IF p.changeAddrOverride THEN 0 ELSE 1,
          rev |-> IF p.changeAddrOverride THEN 0 ELSE 1,
          derived |-> IF p.changeAddrOverride THEN <<>> ELSE <<ca1.cursor>>]
    ELSE [ok |-> TRUE, err |-> "none", tx |-> t.tx,
          utxoIds |-> sel.utxoIds, amount |-> amount, fee |-> p.fee,
          ca |-> ca1, next |-> IF p.changeAddrOverride THEN 0 ELSE 1,
          rev |-> 0,
          derived |-> IF p.changeAddrOverride THEN <<>> ELSE <<ca1.cursor>>]

(* Mutant: the transaction is built without .fee(fee). *)
ComposeSelectedNoFee(p, sel, amount, info, ca) ==
    ComposeBuilt(p, sel, amount, ca,
                 IF p.changeAddrOverride THEN ca ELSE ChangeNext(ca),
                 Transaction(sel.utxoIds, amount, 0, info))

ComposeSelected(p, sel, amount, info, ca) ==
    ComposeBuilt(p, sel, amount, ca,
                 IF p.changeAddrOverride THEN ca ELSE ChangeNext(ca),
                 Transaction(sel.utxoIds, amount, p.fee, info))

(* The amount composeTx sends: what collectUtxos gathered when compounding. *)
ComposeAmount(p, sel) == IF p.compoundingUTXO THEN sel.amount ELSE p.amount

ComposeInputs(p, sel, info, ca) ==
    ComposeSelected(p, sel, ComposeAmount(p, sel), info, ca)

(* w is the wallet as composeTx reads it: [confirmed, inUse, info,
   defaultFee]; ca is addressManager.changeAddress.  The result carries the
   chain as composeTx leaves it, how often next() and reverse() ran, and the
   change indices next() derived (each raises the manager's new-address). *)
ComposeTx(p, w, ca) ==
    ComposeInputs(p,
                  IF p.compoundingUTXO
                  THEN CollectUtxos(p.compoundingUTXOMaxCount, w)
                  ELSE SelectUtxos(p.amount + p.fee, w),
                  w.info, ca)

----------------------------------------------------------------------------
(* Wallet.estimateTransaction *)

(* txSize: the buffer length, padded for the signatures to come when the
   transaction is unsigned, calibrated when it is signed. *)
TxSize(tx, skipSign) ==
    IF skipSign
    THEN BufferLength(tx, skipSign) + SigPad * Cardinality(tx.inputs)
    ELSE BufferLength(tx, skipSign) - Cardinality(tx.inputs) * SigAdj

DataFee(tx, skipSign, feePerByte) == TxSize(tx, skipSign) * feePerByte

(* Mutant: the loop also continues when the fee just covers the data fee. *)
LoopContinuesOnEqual(fee, dataFee, priorityFee, networkFeeMax) ==
    /\ (networkFeeMax = 0 \/ fee <= networkFeeMax)
    /\ fee <= dataFee + priorityFee

(* Mutant: the loop ends once the fee covers the data fee alone. *)
LoopContinuesNoPriority(fee, dataFee, priorityFee, networkFeeMax) ==
    /\ (networkFeeMax = 0 \/ fee <= networkFeeMax)
    /\ fee < dataFee

(* The do-while continues while the fee is within networkFeeMax and does not
   yet cover the data fee of the transaction just composed. *)
LoopContinues(fee, dataFee, priorityFee, networkFeeMax) ==
    /\ (networkFeeMax = 0 \/ fee <= networkFeeMax)
    /\ fee < dataFee + priorityFee

(* Mutant: only the data fee is held against networkFeeMax. *)
ExceedsFeeMaxOnDataFee(fee, dataFee, networkFeeMax) ==
    networkFeeMax # 0 /\ dataFee > networkFeeMax

(* After the loop: the fee charged may not exceed networkFeeMax. *)
ExceedsFeeMax(fee, dataFee, networkFeeMax) ==
    networkFeeMax # 0 /\ fee > networkFeeMax

(* Mutant: a priority fee equal to the data fee is refused too. *)
BelowMinimumFeeOrEqual(dataFee, priorityFee) == dataFee >= priorityFee

(* calculateNetworkFee=false: the priority fee must cover the data fee. *)
BelowMinimumFee(dataFee, priorityFee) == dataFee > priorityFee

(* More compositions than there are distinct transaction shapes. *)
LoopFuel == 2 * NumUtxos + 2

(* What estimateTransaction hands back, or the error it throws. *)
EstResult(ok, err, data, dataFee, txSize, totalAmount, st) ==
    [ok |-> ok, err |-> err,
     tx |-> IF ok THEN data.tx ELSE NoTx,
     utxoIds |-> IF ok THEN data.utxoIds ELSE <<>>,
     amount |-> data.amount, fee |-> data.fee,
     dataFee |-> dataFee, txSize |-> txSize, totalAmount |-> totalAmount,
     ca |-> st.ca, next |-> st.next, rev |-> st.rev, fees |-> st.fees,
     derived |-> st.derived, dataFee0 |-> st.dataFee0]

(* The state estimateTransaction threads through its compositions. *)
AfterCompose(st, data) ==
    [st EXCEPT !.ca = data.ca, !.next = @ + data.next, !.rev = @ + data.rev,
               !.fees = Append(@, data.fee),
               !.derived = @ \o data.derived]

(* Mutant: only the data fee comes off an inclusive amount. *)
RoundParamsDataFeeOnly(tp, dataFee, priorityFee, txAmount, inclusiveFee) ==
    [tp EXCEPT !.fee = priorityFee + dataFee,
               !.amount = IF inclusiveFee THEN txAmount - dataFee ELSE @]

(* txParams of one round: the fee is the priority fee plus the data fee of
   the composition before; an inclusive fee comes off the amount. *)
RoundParams(tp, dataFee, priorityFee, txAmount, inclusiveFee) ==
    [tp EXCEPT !.fee = priorityFee + dataFee,
               !.amount = IF inclusiveFee
                          THEN txAmount - (priorityFee + dataFee) ELSE @]

(* The do-while of estimateTransaction, one composition per round.  tp is
   txParams, dataFee the data fee of the composition before. *)
RECURSIVE FeeLoop(_, _, _, _, _, _, _, _)

(* After the composition of a round: test the loop condition. *)
LoopTest(tp1, w, st1, data, txSize, priorityFee, txAmount, inclusiveFee, fuel) ==
    IF ~data.ok
    THEN EstResult(FALSE, data.err, data, 0, 0, 0, st1)
    ELSE IF LoopContinues(tp1.fee, txSize * w.defaultFee, priorityFee,
                          tp1.networkFeeMax)
    THEN IF fuel = 0
         THEN EstResult(FALSE, "fuel", data, txSize * w.defaultFee, txSize, 0, st1)
         ELSE FeeLoop(tp1, w, st1, txSize * w.defaultFee, priorityFee,
                      txAmount, inclusiveFee, fuel - 1)
    ELSE IF ExceedsFeeMax(tp1.fee, txSize * w.defaultFee, tp1.networkFeeMax)
    THEN EstResult(FALSE, "feeMax", data, txSize * w.defaultFee, txSize, 0, st1)
    ELSE EstResult(TRUE, "none", data, txSize * w.defaultFee, txSize,
                   tp1.fee + tp1.amount, st1)

LoopRound(tp1, w, st, data, priorityFee, txAmount, inclusiveFee, fuel) ==
    LoopTest(tp1, w, AfterCompose(st, data), data,
             IF data.ok THEN TxSize(data.tx, tp1.skipSign) ELSE 0,
             priorityFee, txAmount, inclusiveFee, fuel)

LoopBody(tp1, w, st, priorityFee, txAmount, inclusiveFee, fuel) ==
    LoopRound(tp1, w, st, ComposeTx(tp1, w, st.ca), priorityFee, txAmount,
              inclusiveFee, fuel)

FeeLoop(tp, w, st, dataFee, priorityFee, txAmount, inclusiveFee, fuel) ==
    LoopBody(RoundParams(tp, dataFee, priorityFee, txAmount, inclusiveFee),
             w, st, priorityFee, txAmount, inclusiveFee, fuel)

(* calculateNetworkFee=false with an inclusive fee: the fee comes off the
   amount and the transaction is composed once more. *)
InclusiveRecompose(tp1, data1, dataFee, txSize, st1) ==
    EstResult(data1.ok, data1.err, data1, dataFee, txSize,
              tp1.fee + tp1.amount, AfterCompose(st1, data1))

InclusiveParams(tp) == [tp EXCEPT !.amount = @ - tp.fee]

(* Mutant: compounding leaves inclusiveFee as the caller gave it. *)
InclusiveFeeAsGiven(p) == p.inclusiveFee

(* inclusiveFee as the fee loop reads it: compounding sets it. *)
InclusiveFee(p) == p.inclusiveFee \/ p.compoundingUTXO

(* estimateTransaction after the first composition.  tp is txParams. *)
EstimateComposed(p, tp, w, data, txSize, dataFee, st1) ==
    IF ~data.ok
    THEN EstResult(FALSE, data.err, data, 0, 0, 0, st1)
    ELSE IF p.networkFeeMax # 0 /\ dataFee > p.networkFeeMax
    THEN EstResult(FALSE, "feeMaxPre", data, dataFee, txSize, 0, st1)
    ELSE IF p.calculateNetworkFee \/ p.compoundingUTXO
    THEN FeeLoop(tp, w, st1, dataFee, p.fee, tp.amount,
                 InclusiveFee(p), LoopFuel)
    ELSE IF BelowMinimumFee(dataFee, p.fee)
    THEN EstResult(FALSE, "minFee", data, dataFee, txSize, 0, st1)
    ELSE IF p.inclusiveFee
    THEN InclusiveRecompose(InclusiveParams(tp),
                            ComposeTx(InclusiveParams(tp), w, st1.ca),
                            dataFee, txSize, st1)
    ELSE EstResult(TRUE, "none", data, dataFee, txSize,
                   tp.fee + tp.amount, st1)

EstimateSized(p, w, data, txSize, st0) ==
    EstimateComposed(
        p,
        [p EXCEPT !.amount = IF p.compoundingUTXO THEN data.amount ELSE @,
                  !.compoundingUTXO = FALSE],
        w, data, txSize, txSize * w.defaultFee,
        [AfterCompose(st0, data) EXCEPT !.dataFee0 = txSize * w.defaultFee])

EstimateFirst(p, w, data, st0) ==
    EstimateSized(p, w, data,
                  IF data.ok THEN TxSize(data.tx, p.skipSign) ELSE 0, st0)

(* estimateTransaction(txParamsArg) after its await of waitOrSync. *)
EstimateTransaction(p, w, ca) ==
    EstimateFirst(p, w, ComposeTx(p, w, ca),
                  [ca |-> ca, next |-> 0, rev |-> 0, fees |-> <<>>,
                   derived |-> <<>>, dataFee0 |-> 0])

----------------------------------------------------------------------------
(* The wallet's state and its handlers *)

WalletView ==
    [confirmed |-> confirmed, inUse |-> inUse, info |-> utxoInfo,
     defaultFee |-> defaultFee]

NoParams ==
    [toAddr |-> "none", amount |-> 0, fee |-> 0, networkFeeMax |-> 0,
     calculateNetworkFee |-> FALSE, inclusiveFee |-> FALSE,
     changeAddrOverride |-> FALSE, compoundingUTXO |-> FALSE,
     compoundingUTXOMaxCount |-> 0, skipSign |-> TRUE,
     skipUTXOInUseMark |-> FALSE]

NoRes ==
    [ok |-> FALSE, err |-> "none", tx |-> NoTx, utxoIds |-> <<>>,
     amount |-> 0, fee |-> 0, dataFee |-> 0, txSize |-> 0, totalAmount |-> 0,
     ca |-> [counter |-> 0, cursor |-> 0], next |-> 0, rev |-> 0,
     fees |-> <<>>, derived |-> <<>>, dataFee0 |-> 0]

(* A call that has not been made. *)
NoCall == [op |-> "none", pc |-> "idle", p |-> NoParams, res |-> NoRes,
           txid |-> 0, before |-> 0]

(* emitAddress() after each next(): new-address when the change address
   differs from the one notified last, which is then recorded. *)
RECURSIVE EmitAddresses(_, _)
EmitAddresses(last, derived) ==
    IF derived = <<>> THEN [last |-> last, events |-> <<>>]
    ELSE LET rest == EmitAddresses(Head(derived), Tail(derived))
         IN [last |-> rest.last,
             events |-> (IF Head(derived) = last THEN <<>>
                         ELSE <<"new-address">>) \o rest.events]

(* A caller invokes estimateTransaction, buildTransaction or
   submitTransaction; the call runs to `await this.waitOrSync()`. *)
Invoke(c, op, p) ==
    /\ calls[c].pc = "idle"
    /\ calls' = [calls EXCEPT ![c] =
         [NoCall EXCEPT
            !.op = op, !.pc = "start",
            !.p = [p EXCEPT
                     !.skipSign = IF op = "estimate" THEN @ ELSE TRUE,
                     !.skipUTXOInUseMark = IF op = "submit" THEN TRUE ELSE @]]]
    /\ emitted' = <<>>
    /\ UNCHANGED <<identityVars, managerVars, utxoInfo, confirmed, pending, used, inUse, balance,
                   blueScore, defaultFee, changeAddress,
                   lastAddressNotification, txStore, rpcTxs>>
    /\ UNCHANGED lifecycleVars

(* estimateTransaction resumes and runs to its end. *)
Estimate(c) ==
    /\ calls[c].pc = "start"
    /\ \E res \in {EstimateTransaction(calls[c].p, WalletView, changeAddress)} :
       LET ea == EmitAddresses(lastAddressNotification, res.derived)
       IN /\ changeAddress' = res.ca
          /\ lastAddressNotification' = ea.last
          /\ emitted' = ea.events
          /\ calls' = [calls EXCEPT ![c] =
                [@ EXCEPT !.res = res,
                          !.before = changeAddress.counter,
                          !.pc = IF ~res.ok THEN "failed"
                                 ELSE IF calls[c].op = "estimate" THEN "done"
                                 ELSE "estimated"]]
    /\ UNCHANGED <<identityVars, managerVars, utxoInfo, confirmed, pending, used, inUse, balance,
                   blueScore, defaultFee, txStore, rpcTxs>>
    /\ UNCHANGED lifecycleVars

(* updateUsed(utxos): each output leaves confirmed/pending for used and its
   id is pushed to inUse (spec 4.2). *)
UpdateUsed(utxoIds) ==
    LET ids == Range(utxoIds)
    IN /\ used' = used \cup ids
       /\ confirmed' = confirmed \ ids
       /\ pending' = pending \ ids
       /\ inUse' = inUse \o utxoIds
       /\ balance' = [available |-> SumSat(confirmed \ ids, utxoInfo),
                      pending |-> SumSat(pending \ ids, utxoInfo)]

(* Mutant: the mark is applied whatever skipUTXOInUseMark says. *)
MarksInUseAlways(p) == TRUE

(* buildTransaction marks the inputs unless skipUTXOInUseMark is true. *)
MarksInUse(p) == p.skipUTXOInUseMark # TRUE

(* buildTransaction resumes with the estimate: sign, check the mass, mark
   the inputs; submitTransaction then hands rpcTX to the node. *)
BuildFinish(c) ==
    /\ calls[c].pc = "estimated"
    /\ emitted' = <<>>
    /\ LET res == calls[c].res
       IN IF TxMass(res.tx) > MaxMassAcceptedByBlock
          THEN /\ calls' = [calls EXCEPT ![c] =
                     [@ EXCEPT !.pc = "failed", !.res.ok = FALSE,
                               !.res.err = "mass"]]
               /\ UNCHANGED <<confirmed, pending, used, inUse, balance, rpcTxs>>
          ELSE /\ IF MarksInUse(calls[c].p)
                  THEN UpdateUsed(res.utxoIds)
                  ELSE UNCHANGED <<confirmed, pending, used, inUse, balance>>
               /\ IF calls[c].op = "submit"
                  THEN /\ rpcTxs' = rpcTxs \cup
                            {[call |-> c, inputs |-> res.tx.inputs,
                              outputs |-> SumOutputs(res.tx),
                              fee |-> res.fee]}
                       /\ calls' = [calls EXCEPT ![c].pc = "rpc"]
                  ELSE /\ rpcTxs' = rpcTxs
                       /\ calls' = [calls EXCEPT ![c].pc = "done"]
    /\ UNCHANGED <<identityVars, managerVars, utxoInfo, blueScore, defaultFee, changeAddress,
                   lastAddressNotification, txStore>>
    /\ UNCHANGED lifecycleVars

(* txStore.add(tx): keyed by id (spec 4.5). *)
TxStoreAdd(store, entry) ==
    IF \E e \in store : e.id = entry.id THEN store ELSE store \cup {entry}

(* The entry submitTransaction records for a sent transaction. *)
SentEntry(c, txid) ==
    [in |-> FALSE, id |-> txid, amount |-> calls[c].res.amount,
     address |-> calls[c].p.toAddr, blueScore |-> blueScore]

(* Mutant: only the first input is pushed. *)
PushInUseFirst(list, utxoIds) == list \o FirstN(utxoIds, 1)

(* utxoSet.inUse.push(...utxoIds) *)
PushInUse(list, utxoIds) == list \o utxoIds

(* rpc.submitTransaction resolves with a txid: submitTransaction records the
   inputs as in use, stores the transaction and notifies. *)
SubmitAccepted(c) ==
    /\ calls[c].pc = "rpc"
    /\ inUse' = PushInUse(inUse, calls[c].res.utxoIds)
    /\ txStore' = TxStoreAdd(txStore, SentEntry(c, c))
    /\ emitted' = <<"debug-info", "state-update">>
    /\ calls' = [calls EXCEPT ![c].pc = "done", ![c].txid = c]
    /\ UNCHANGED <<identityVars, managerVars, utxoInfo, confirmed, pending, used, balance, blueScore,
                   defaultFee, changeAddress, lastAddressNotification, rpcTxs>>
    /\ UNCHANGED lifecycleVars

(* rpc.submitTransaction resolves without a txid: return null. *)
SubmitNoTxid(c) ==
    /\ calls[c].pc = "rpc"
    /\ calls' = [calls EXCEPT ![c].pc = "null"]
    /\ emitted' = <<>>
    /\ UNCHANGED <<identityVars, managerVars, utxoInfo, confirmed, pending, used, inUse, balance,
                   blueScore, defaultFee, changeAddress,
                   lastAddressNotification, txStore, rpcTxs>>
    /\ UNCHANGED lifecycleVars

(* rpc.submitTransaction rejects: the error is rethrown. *)
SubmitRejected(c) ==
    /\ calls[c].pc = "rpc"
    /\ calls' = [calls EXCEPT ![c].pc = "failed", ![c].res.ok = FALSE,
                              ![c].res.err = "rpc"]
    /\ emitted' = <<>>
    /\ UNCHANGED <<identityVars, managerVars, utxoInfo, confirmed, pending, used, inUse, balance,
                   blueScore, defaultFee, changeAddress,
                   lastAddressNotification, txStore, rpcTxs>>
    /\ UNCHANGED lifecycleVars

(* updateUtxoBalance(): outputs move between confirmed and pending by
   maturity at the current blue score (spec 4.2). *)
Mature(S, score) == {o \in S : IsMatureAt(o, score, utxoInfo)}

(* The blue-score-changed subscription delivers a new score. *)
BlueScoreChanged ==
    /\ blueScore < MaxBlueScore
    /\ blueScore' = blueScore + 1
    /\ LET known == confirmed \cup pending
           conf == Mature(known, blueScore + 1)
           bal == [available |-> SumSat(conf, utxoInfo),
                   pending |-> SumSat(known \ conf, utxoInfo)]
       IN /\ confirmed' = conf
          /\ pending' = known \ conf
          /\ balance' = bal
          /\ emitted' = <<"blue-score-changed">> \o
                        (IF bal # balance THEN <<"balance-update">> ELSE <<>>)
    /\ UNCHANGED <<identityVars, managerVars, utxoInfo, used, inUse, defaultFee, changeAddress,
                   lastAddressNotification, txStore, calls, rpcTxs>>
    /\ UNCHANGED lifecycleVars

----------------------------------------------------------------------------
(* Balance bookkeeping: Wallet.balance, adjustBalance, emitBalance *)

(* The notification state the balance methods read and write, with the
   events they have emitted so far in the running handler. *)
NotifyState ==
    [balance |-> balance, total |-> balanceTotal,
     last |-> lastBalanceNotification,
     disabled |-> disableBalanceNotifications, syncing |-> syncInProggress,
     history |-> history, events |-> <<>>, notified |-> <<>>]

(* The payload of balance-update and ready: the balance getter's
   available, pending and total. *)
BalancePayload(event, bal) ==
    [event |-> event, available |-> bal.available, pending |-> bal.pending,
     total |-> bal.available + bal.pending]

(* Mutant: only the available balance is compared. *)
BalanceDiffersAvailable(bal, last) == bal.available # last.available

BalanceDiffers(bal, last) ==
    bal.available # last.available \/ bal.pending # last.pending

(* emitBalance() *)
EmitBalance(n) ==
    IF ~BalanceDiffers(n.balance, n.last) THEN n
    ELSE [n EXCEPT !.last = n.balance,
                   !.events = Append(@, "balance-update"),
                   !.notified = Append(@, BalancePayload("balance-update",
                                                         n.balance)),
                   !.history.lastUpdate = n.balance]

(* Mutant: every delta goes to the confirmed balance. *)
AdjustedConfirmedOnly(isConfirmed, amount, bal) ==
    [bal EXCEPT !.available = @ + amount]

Adjusted(isConfirmed, amount, bal) ==
    IF isConfirmed THEN [bal EXCEPT !.available = @ + amount]
    ELSE [bal EXCEPT !.pending = @ + amount]

(* The balances after the addition, with the stored total. *)
AdjustStored(n, isConfirmed, amount, bal) ==
    [n EXCEPT !.balance = bal, !.total = bal.available + bal.pending,
              !.history.confirmed = IF isConfirmed THEN @ + amount ELSE @,
              !.history.pending = IF isConfirmed THEN @ ELSE @ + amount,
              !.history.calls = @ + 1]

(* Mutant: the suppression flag is not consulted. *)
AdjustNotifiesDespiteFlag(n, notify, before) ==
    /\ notify
    /\ ~n.syncing
    /\ BalanceDiffers(n.balance, before)

AdjustNotifies(n, notify, before) ==
    /\ notify
    /\ ~n.syncing
    /\ ~n.disabled
    /\ BalanceDiffers(n.balance, before)

AdjustEmit(n, notify, before) ==
    IF AdjustNotifies(n, notify, before) THEN EmitBalance(n) ELSE n

(* adjustBalance(isConfirmed, amount, notify) *)
AdjustBalance(isConfirmed, amount, notify, n) ==
    AdjustEmit(AdjustStored(n, isConfirmed, amount,
                            Adjusted(isConfirmed, amount, n.balance)),
               notify, n.balance)

(* The wallet takes over what the balance methods left. *)
SetNotifyState(n) ==
    /\ balance' = n.balance
    /\ balanceTotal' = n.total
    /\ lastBalanceNotification' = n.last
    /\ disableBalanceNotifications' = n.disabled
    /\ history' = n.history
    /\ notified' = n.notified

(* A caller (the UTXO set) invokes adjustBalance. *)
AdjustBalanceCall(isConfirmed, amount, notify) ==
    /\ history.calls < MaxAdjusts
    /\ \E n \in {AdjustBalance(isConfirmed, amount, notify, NotifyState)} :
          SetNotifyState(n) /\ emitted' = n.events
    /\ UNCHANGED <<identityVars, managerVars, utxoInfo, confirmed, pending, used, inUse, blueScore,
                   defaultFee, changeAddress, lastAddressNotification,
                   txStore, calls, rpcTxs, syncInProggress, batches,
                   discoveryVars, syncVars>>

(* A caller invokes emitBalance. *)
EmitBalanceCall ==
    /\ \E n \in {EmitBalance(NotifyState)} :
          SetNotifyState(n) /\ emitted' = n.events
    /\ UNCHANGED <<identityVars, managerVars, utxoInfo, confirmed, pending, used, inUse, blueScore,
                   defaultFee, changeAddress, lastAddressNotification,
                   txStore, calls, rpcTxs, syncInProggress, batches,
                   discoveryVars, syncVars>>

----------------------------------------------------------------------------
(* The calls of the sync lifecycle *)

(* A findUtxos or addressDiscovery call that has not been made. *)
NoDiscovery ==
    [op |-> "none", pc |-> "idle", threshold |-> 0, chain |-> "receive",
     n |-> 0, offset |-> 0, windows |-> 0,
     queried |-> [ch \in Chains |-> {}],
     lastEmpty |-> [ch \in Chains |-> FALSE],
     highest |-> [ch \in Chains |-> -1],
     advanced |-> [ch \in Chains |-> -1],
     sync |-> 0]

(* A sync call that has not been made. *)
NoSync ==
    [pc |-> "idle", arg |-> "undefined", once |-> FALSE, auto |-> FALSE,
     signal |-> 0, started |-> FALSE, requests |-> 0, fetch |-> "none",
     subscribed |-> FALSE, resolved |-> 0, live |-> FALSE,
     subscribes |-> 0]

(* The identity of a wallet: Wallet.constructor, fromMnemonic, import,
   export, createUID.  HD private keys are numbered; Mnemonic,
   kaspacore.HDPrivateKey, JSON and Crypto are libraries, modelled by what
   they do to the strings that pass through them. *)

Networks == {"kaspa", "kaspatest"}

(* The seed phrases in play; the last is the second with spaces around. *)
Phrases == {"abandon ability", "zoo zone", " zoo zone "}

(* String.trim() *)
Trim(phrase) == IF phrase = " zoo zone " THEN "zoo zone" ELSE phrase

(* new Mnemonic(phrase).toHDPrivateKey(): the key of a phrase.  Key
   MaxKeys is the key of no phrase in play. *)
MnemonicKey(phrase) == IF phrase = "abandon ability" THEN 1 ELSE 2

(* HDPrivateKey.toString(): the extended private key as a string. *)
Xprv(k) == "xprv" \o ToString(k)

(* new kaspacore.HDPrivateKey(str): the key the string encodes. *)
HDPrivateKey(str) == CHOOSE k \in Keys : Xprv(k) = str

(* privateKey.toAddress(network).toString(): prefix, colon, payload. *)
AddressString(k, network) == <<network, ":", "q" \o ToString(k)>>

(* helper.createHash *)
CreateHash(str) == "#" \o str

(* createUID(): the hash of the address of a fixed child key, taken after
   the colon (spec 4.1). *)
CreateUID(k, network) == CreateHash(AddressString(k, network)[3])

(* A Wallet that has not been made. *)
NoWallet ==
    [made |-> FALSE, HDWallet |-> 0, mnemonic |-> "", uid |-> "",
     network |-> "", how |-> "none", from |-> 0, password |-> ""]

(* The fields the constructor sets from a key and a phrase. *)
Identity(k, phrase, network) ==
    [NoWallet EXCEPT !.made = TRUE, !.HDWallet = k, !.mnemonic = phrase,
                     !.uid = CreateUID(k, network), !.network = network,
                     !.how = "new"]

(* Wallet.constructor: the key and the phrase given, if both are given,
   else a generated phrase and its key. *)
Constructor(privKey, seedPhrase, network, generated) ==
    IF privKey # "" /\ seedPhrase # ""
    THEN Identity(HDPrivateKey(privKey), seedPhrase, network)
    ELSE Identity(HDPrivateKey(Xprv(MnemonicKey(generated))), generated,
                  network)

(* JSON.stringify of a WalletSave and JSON.parse of the string. *)
Stringify(saved) == <<"privKey", saved.privKey, "seedPhrase", saved.seedPhrase>>

Parse(str) == [privKey |-> str[2], seedPhrase |-> str[4]]

(* Crypto.encrypt and Crypto.decrypt (spec 6): symmetric, authenticated. *)
Encrypt(password, text) == [password |-> password, text |-> text]

Decrypt(password, data) ==
    IF data.password = password THEN [ok |-> TRUE, text |-> data.text]
    ELSE [ok |-> FALSE, text |-> <<>>]

(* Mutant: the seed phrase is saved trimmed. *)
ExportTrimmed(w, password) ==
    Encrypt(password,
            Stringify([privKey |-> Xprv(w.HDWallet),
                       seedPhrase |-> Trim(w.mnemonic)]))

(* export(password) of wallet record w *)
Export(w, password) ==
    Encrypt(password,
            Stringify([privKey |-> Xprv(w.HDWallet), seedPhrase |-> w.mnemonic]))

(* An export that has not been made. *)
NoExport == [made |-> FALSE, of |-> 0, password |-> "", data |-> <<>>]

(* Wallet.fromMnemonic(seedPhrase, networkOptions) *)
FromMnemonic(w, seedPhrase, network) ==
    /\ ~wallets[w].made
    /\ wallets' = [wallets EXCEPT ![w] =
         [Constructor(Xprv(MnemonicKey(Trim(seedPhrase))), seedPhrase,
                      network, seedPhrase)
            EXCEPT !.how = "fromMnemonic"]]
    /\ UNCHANGED <<txVars, lifecycleVars, exported, managerVars>>

(* wallet.export(password) *)
ExportCall(e, w, password) ==
    /\ wallets[w].made
    /\ ~exported[e].made
    /\ exported' = [exported EXCEPT ![e] =
         [made |-> TRUE, of |-> w, password |-> password,
          data |-> Export(wallets[w], password)]]
    /\ UNCHANGED <<txVars, lifecycleVars, wallets, managerVars>>

(* Wallet.import(password, encryptedMnemonic, networkOptions); with a wrong
   password Crypto.decrypt rejects and no wallet is made. *)
Import(w, e, password, network, generated) ==
    /\ ~wallets[w].made
    /\ exported[e].made
    /\ Decrypt(password, exported[e].data).ok
    /\ \E saved \in {Parse(Decrypt(password, exported[e].data).text)} :
         wallets' = [wallets EXCEPT ![w] =
            [Constructor(saved.privKey, saved.seedPhrase, network, generated)
               EXCEPT !.how = "import", !.from = e, !.password = password]]
    /\ UNCHANGED <<txVars, lifecycleVars, exported, managerVars>>

(* The wallet of the other specifications: made from a seed phrase. *)
OneWallet ==
    /\ wallets = [w \in WalletIds |->
                    IF w = 1
                    THEN [Constructor(Xprv(1), "abandon ability", "kaspa",
                                      "zoo zone")
                            EXCEPT !.how = "fromMnemonic"]
                    ELSE NoWallet]
    /\ exported = [e \in ExportIds |-> NoExport]

(* The address manager the constructor makes: the wallet does not listen
   to it before the first sync. *)
ManagerMade ==
    /\ addressManager = [instance |-> 1, listening |-> FALSE]
    /\ addressManagerInitialized = FALSE
    /\ options = [skipSyncBalance |-> FALSE]
    /\ addressSyncs = {}

(* The address manager once a sync has called initAddressManager. *)
ManagerInitialized ==
    /\ addressManager = [instance |-> 1, listening |-> TRUE]
    /\ addressManagerInitialized = TRUE
    /\ options = [skipSyncBalance |-> FALSE]
    /\ addressSyncs = {}

(* The lifecycle state of a wallet whose continuous sync has completed. *)
SyncedLifecycle(bal) ==
    /\ OneWallet
    /\ ManagerInitialized
    /\ balanceTotal = bal.available + bal.pending
    /\ lastBalanceNotification = bal
    /\ disableBalanceNotifications = FALSE
    /\ syncInProggress = FALSE
    /\ history = [confirmed |-> bal.available, pending |-> bal.pending,
                  calls |-> 0, lastUpdate |-> bal]
    /\ batches = <<>>
    /\ notified = <<>>
    /\ receiveAddress = [counter |-> 0, cursor |-> 0]
    /\ lastReceiveNotification = 0
    /\ owner = [o \in Outpoints |-> <<"receive", 0>>]
    /\ utxoStorage = {<<"receive", 0>>}
    /\ discoveries = [d \in DiscoveryIds |-> NoDiscovery]
    /\ connected = "true"
    /\ connectSignal = TRUE
    /\ syncOnce = "false"
    /\ syncSignal = 1
    /\ resolvedSignals = {1}
    /\ syncVirtualSelectedParentBlueScoreStarted = TRUE
    /\ blueScoreSubscriptions = 1
    /\ utxoSubscriptions = 1
    /\ syncs = [s \in SyncIds |-> NoSync]

----------------------------------------------------------------------------
(* Spec: a synced wallet in steady state serving concurrent build and
   submit calls while blue-score notifications arrive. *)

InitBlueScore == 1
SubmitSatValues == {1000}
SubmitAmounts == {500, 1200}

SubmitParams ==
    {[NoParams EXCEPT !.toAddr = "addr", !.amount = a,
                      !.calculateNetworkFee = TRUE, !.inclusiveFee = i]
        : a \in SubmitAmounts, i \in BOOLEAN}

(* The wallet after a completed sync over the node's outputs. *)
Synced(info, score, feePerByte) ==
    /\ utxoInfo = info
    /\ blueScore = score
    /\ confirmed = {o \in Outpoints : IsMatureAt(o, score, info)}
    /\ pending = {o \in Outpoints : ~IsMatureAt(o, score, info)}
    /\ used = {}
    /\ inUse = <<>>
    /\ balance =
         [available |-> SumSat({o \in Outpoints : IsMatureAt(o, score, info)}, info),
          pending |-> SumSat({o \in Outpoints : ~IsMatureAt(o, score, info)}, info)]
    /\ defaultFee = feePerByte
    /\ changeAddress = [counter |-> 0, cursor |-> 0]
    /\ lastAddressNotification = 0
    /\ txStore = {}
    /\ emitted = <<>>
    /\ calls = [c \in CallIds |-> NoCall]
    /\ rpcTxs = {}
    /\ SyncedLifecycle(
         [available |-> SumSat({o \in Outpoints : IsMatureAt(o, score, info)}, info),
          pending |-> SumSat({o \in Outpoints : ~IsMatureAt(o, score, info)}, info)])

Init ==
    \E info \in [Outpoints -> [satoshis : SubmitSatValues,
                               blockBlueScore : {0, InitBlueScore}]] :
        Synced(info, InitBlueScore, 1)

Next ==
    \/ \E c \in CallIds, op \in {"build", "submit"}, p \in SubmitParams :
          Invoke(c, op, p)
    \/ \E c \in CallIds : Estimate(c)
    \/ \E c \in CallIds : BuildFinish(c)
    \/ \E c \in CallIds : SubmitAccepted(c)
    \/ \E c \in CallIds : SubmitNoTxid(c)
    \/ \E c \in CallIds : SubmitRejected(c)
    \/ BlueScoreChanged

Spec == Init /\ [][Next]_vars

----------------------------------------------------------------------------
(* SpecEstimate: estimateTransaction and buildTransaction as functions of
   the UTXO set, the fee rate and the parameters of one call, up to the
   hand-over of rpcTX to the node. *)

EstSatValues == {400, 622, 2000}
EstAmounts == {300, 1000, 2500}
EstFees == {0, 100, 644}
EstFeeMax == {0, 300, 700}
EstDefaultFees == {1, 2}

EstParams ==
    {[NoParams EXCEPT !.toAddr = "addr", !.amount = a, !.fee = f,
                      !.networkFeeMax = m, !.calculateNetworkFee = calc,
                      !.inclusiveFee = i, !.changeAddrOverride = o,
                      !.skipSign = s]
        : a \in EstAmounts, f \in EstFees, m \in EstFeeMax,
          calc \in BOOLEAN, i \in BOOLEAN, o \in BOOLEAN, s \in BOOLEAN}
    \cup
    {[NoParams EXCEPT !.toAddr = "change", !.amount = -1, !.fee = f,
                      !.networkFeeMax = m, !.compoundingUTXO = TRUE,
                      !.compoundingUTXOMaxCount = k]
        : f \in EstFees, m \in EstFeeMax, k \in 1..NumUtxos}

InitEstimate ==
    \E info \in [Outpoints -> [satoshis : EstSatValues, blockBlueScore : {0}]],
       feePerByte \in EstDefaultFees :
        Synced(info, InitBlueScore, feePerByte)

NextEstimate ==
    \/ \E op \in {"estimate", "build", "submit"}, p \in EstParams :
          Invoke(1, op, p)
    \/ Estimate(1)
    \/ BuildFinish(1)

SpecEstimate == InitEstimate /\ [][NextEstimate]_vars

----------------------------------------------------------------------------
(* Properties of submitTransaction, checked under Spec *)

SubmitCalls == {c \in CallIds : calls[c].op = "submit"}

(* C1: no outpoint is ever an input of two transactions that are both
   handed to rpc.submitTransaction: while a submit awaits the node, the
   outputs it chose are reserved, so an overlapping submit cannot choose
   them again. *)
C1_NoOutpointSubmittedTwice ==
    \A a, b \in rpcTxs : a.call # b.call => a.inputs \cap b.inputs = {}

(* C3: every step of a submitTransaction call other than the node's
   acceptance (the build under skipUTXOInUseMark, a rejection, an answer
   without txid) leaves inUse, used and the TxStore as they were and emits no
   state-update; a rejection ends the call with the node's error, an answer
   without txid ends it with null. *)
C3_FailedSubmitChangesNothing ==
    [][\A c \in CallIds :
          (/\ calls'[c].op = "submit"
           /\ calls'[c].pc # calls[c].pc
           /\ calls'[c].pc # "done")
          => /\ inUse' = inUse
             /\ used' = used
             /\ txStore' = txStore
             /\ \A i \in 1..Len(emitted') : emitted'[i] # "state-update"
             /\ calls'[c].txid = 0
             /\ (calls[c].pc = "rpc" =>
                    \/ calls'[c].pc = "null"
                    \/ calls'[c].pc = "failed" /\ calls'[c].res.err = "rpc")]_vars

(* One submit has returned null and another has been rejected by the node. *)
C3_Witness ==
    \E c, d \in SubmitCalls :
        /\ calls[c].pc = "null"
        /\ calls[d].pc = "failed" /\ calls[d].res.err = "rpc"
        /\ inUse = <<>> /\ txStore = {}

(* C4: when the node answers with a txid, submitTransaction appends exactly
   the ids of the transaction's inputs to inUse, adds exactly one TxStore
   entry with that txid, the amount and address sent and the wallet's blue
   score of that moment, emits debug-info and then state-update, and returns
   the txid. *)
C4_AcceptedSubmitRecords ==
    [][\A c \in CallIds :
          (calls[c].pc = "rpc" /\ calls'[c].pc = "done")
          => /\ \E ids \in {SubSeq(inUse', Len(inUse) + 1, Len(inUse')) } :
                  /\ inUse' = inUse \o ids
                  /\ Range(ids) = calls[c].res.tx.inputs
                  /\ Len(ids) = Cardinality(calls[c].res.tx.inputs)
             /\ calls'[c].txid # 0
             /\ \E e \in txStore' :
                  /\ e \notin txStore
                  /\ txStore' = txStore \cup {e}
                  /\ e.id = calls'[c].txid
                  /\ e.amount = calls[c].res.tx.amount
                  /\ e.address = calls[c].p.toAddr
                  /\ e.blueScore = blueScore'
             /\ emitted' = <<"debug-info", "state-update">>]_vars

(* A submit was accepted after the blue score moved while it awaited the
   node: the stored entry carries the later score. *)
C4_Witness ==
    \E c \in SubmitCalls :
        /\ calls[c].pc = "done"
        /\ \E e \in txStore :
              /\ e.id = calls[c].txid
              /\ e.blueScore > InitBlueScore
        /\ Range(inUse) = calls[c].res.tx.inputs

----------------------------------------------------------------------------
(* Properties of estimateTransaction and buildTransaction, checked under
   SpecEstimate *)

(* The calls whose estimate has run. *)
Estimated == {c \in CallIds : calls[c].pc \in {"estimated", "done", "failed"}}

(* The calls whose estimate succeeded (a later mass failure included). *)
EstimatedOk ==
    {c \in Estimated : calls[c].res.ok \/ calls[c].res.err = "mass"}

AutoFee(c) == calls[c].p.calculateNetworkFee \/ calls[c].p.compoundingUTXO

(* The calls whose fee loop ran: a second composition under automatic fee. *)
Looped == {c \in Estimated : AutoFee(c) /\ Len(calls[c].res.fees) >= 2}

(* How the fee loop of a call ended. *)
LoopExit(c) ==
    IF c \in EstimatedOk THEN "converged" ELSE calls[c].res.err

(* The wallet's outputs, reservations, store and balance are those of the
   synced wallet the call started from. *)
WalletUntouched ==
    /\ confirmed = {o \in Outpoints : IsMatureAt(o, blueScore, utxoInfo)}
    /\ pending = Outpoints \ confirmed
    /\ used = {}
    /\ inUse = <<>>
    /\ txStore = {}
    /\ balance = [available |-> SumSat(confirmed, utxoInfo),
                  pending |-> SumSat(pending, utxoInfo)]

(* C2: when estimateTransaction or buildTransaction fails with a build-time
   error and no changeAddrOverride is given, every changeAddress.next() of
   the call has been undone by a reverse() (the change index is where it
   was), and outputs, inUse, TxStore and balance are unchanged. *)
C2_FailedBuildLeavesNoTrace ==
    \A c \in CallIds :
        (calls[c].pc = "failed" /\ ~calls[c].p.changeAddrOverride)
        => /\ calls[c].res.next = calls[c].res.rev
           /\ changeAddress.counter = calls[c].before
           /\ WalletUntouched

(* C5 as stated: the loop always ends by convergence, by exceeding
   networkFeeMax or by UTXO selection failing. *)
C5_LoopExitsAsStated ==
    \A c \in Looped : LoopExit(c) \in {"converged", "feeMax", "funds"}

(* C5, amended: the fee loop terminates (within LoopFuel rounds), the fee
   passed to composeTx strictly increases from one round to the next, and the
   loop ends by convergence, by exceeding networkFeeMax, by UTXO selection
   failing for insufficient funds, or by composeTx failing because an
   inclusive fee has grown past the requested amount. *)
C5_FeeLoopTerminates ==
    \A c \in Estimated :
        /\ calls[c].res.err # "fuel"
        /\ c \in Looped =>
              /\ \A i \in 1..(Len(calls[c].res.fees) - 1) :
                    calls[c].res.fees[i] < calls[c].res.fees[i + 1]
              /\ LoopExit(c) \in {"converged", "feeMax", "funds", "amount"}
              /\ LoopExit(c) = "amount" =>
                    /\ calls[c].p.inclusiveFee \/ calls[c].p.compoundingUTXO
                    /\ calls[c].res.amount < 0

(* A loop that took three rounds, with a priority fee, and converged. *)
C5_Witness ==
    \E c \in Looped :
        /\ LoopExit(c) = "converged"
        /\ Len(calls[c].res.fees) >= 4
        /\ calls[c].p.fee > 0

(* C6: under automatic fee (calculateNetworkFee or compounding) a successful
   estimate has fee >= dataFee + priorityFee, dataFee being txSize x
   defaultFee of the transaction returned. *)
C6_FeeCoversDataFee ==
    \A c \in EstimatedOk :
        AutoFee(c) =>
            /\ calls[c].res.fee >=
                 DataFee(calls[c].res.tx, calls[c].p.skipSign, defaultFee)
                 + calls[c].p.fee
            /\ calls[c].res.dataFee =
                 DataFee(calls[c].res.tx, calls[c].p.skipSign, defaultFee)

(* A successful estimate whose loop took more than one round, with a
   priority fee. *)
C6_Witness ==
    \E c \in EstimatedOk :
        /\ AutoFee(c)
        /\ Len(calls[c].res.fees) >= 3
        /\ calls[c].p.fee > 0

(* C7: with networkFeeMax > 0 and calculateNetworkFee set, estimateTransaction
   fails whenever a fee it would charge (priority fee + data fee) exceeds
   networkFeeMax, so every successful result has fee <= networkFeeMax. *)
C7_FeeWithinMax ==
    \A c \in Estimated :
        (calls[c].p.networkFeeMax > 0 /\ calls[c].p.calculateNetworkFee)
        => /\ (\E i \in 1..Len(calls[c].res.fees) :
                   calls[c].res.fees[i] > calls[c].p.networkFeeMax)
              => c \notin EstimatedOk
           /\ calls[c].res.dataFee0 + calls[c].p.fee > calls[c].p.networkFeeMax
              => c \notin EstimatedOk
           /\ c \in EstimatedOk =>
                 /\ calls[c].res.fee <= calls[c].p.networkFeeMax
                 /\ calls[c].p.fee + calls[c].res.dataFee
                      <= calls[c].p.networkFeeMax

(* A success under a fee cap with a priority fee, and the cap was binding
   for some other shape: the fee is more than the data fee alone. *)
C7_Witness ==
    \E c \in EstimatedOk :
        /\ calls[c].p.networkFeeMax > 0
        /\ calls[c].p.calculateNetworkFee
        /\ calls[c].p.fee > 0
        /\ calls[c].res.fee > calls[c].res.dataFee

(* The first composition of the call succeeded. *)
FirstComposed(c) ==
    ~(Len(calls[c].res.fees) = 1
      /\ calls[c].res.err \in {"funds", "amount", "change"})

(* C8: with calculateNetworkFee false and no compounding there is no fee
   loop (every composition carries the caller's fee, and there are at most
   two); once the networkFeeMax pre-check has passed the call fails with the
   minimum-fee error exactly when the data fee of the first composition
   exceeds the priority fee; on success the fee is the priority fee. *)
C8_NoLoopWithoutAutoFee ==
    \A c \in Estimated :
        ~AutoFee(c)
        => /\ Len(calls[c].res.fees) <= 2
           /\ \A i \in 1..Len(calls[c].res.fees) :
                 calls[c].res.fees[i] = calls[c].p.fee
           /\ Len(calls[c].res.fees) = 2 => calls[c].p.inclusiveFee
           /\ (FirstComposed(c) /\ calls[c].res.err # "feeMaxPre")
              => (calls[c].res.err = "minFee"
                    <=> calls[c].res.dataFee0 > calls[c].p.fee)
           /\ c \in EstimatedOk => calls[c].res.fee = calls[c].p.fee

(* A success without automatic fee where the priority fee just covers the
   data fee. *)
C8_Witness ==
    \E c \in EstimatedOk :
        /\ ~AutoFee(c)
        /\ calls[c].res.dataFee0 = calls[c].p.fee
        /\ calls[c].p.fee > 0

(* C9: a successful estimate with inclusiveFee has amount + fee = the amount
   requested, totalAmount = the amount requested and a recipient output of
   the amount requested less the fee; without inclusiveFee the recipient gets
   the amount requested and totalAmount = the amount requested + fee. *)
C9_InclusiveFeeAccounting ==
    \A c \in EstimatedOk :
        ~calls[c].p.compoundingUTXO
        => IF calls[c].p.inclusiveFee
           THEN /\ calls[c].res.amount + calls[c].res.fee = calls[c].p.amount
                /\ calls[c].res.totalAmount = calls[c].p.amount
                /\ calls[c].res.tx.amount = calls[c].p.amount - calls[c].res.fee
           ELSE /\ calls[c].res.amount = calls[c].p.amount
                /\ calls[c].res.tx.amount = calls[c].p.amount
                /\ calls[c].res.totalAmount
                     = calls[c].p.amount + calls[c].res.fee

(* A successful inclusive estimate under automatic fee with a priority fee. *)
C9_Witness ==
    \E c \in EstimatedOk :
        /\ calls[c].p.inclusiveFee
        /\ calls[c].p.calculateNetworkFee
        /\ calls[c].p.fee > 0
        /\ calls[c].res.tx.amount > 0

(* C10: every transaction returned has sum of inputs = sum of outputs + the
   returned fee, which is the fee of rpcTX; the change output is inputs -
   amount - fee and is left out when that is 0; a composition whose change
   would be negative fails. *)
C10_InputsCoverOutputsAndFee ==
    /\ \A c \in EstimatedOk :
          /\ SumSat(calls[c].res.tx.inputs, utxoInfo)
               = SumOutputs(calls[c].res.tx) + calls[c].res.fee
          /\ calls[c].res.tx.change
               = SumSat(calls[c].res.tx.inputs, utxoInfo)
                 - calls[c].res.tx.amount - calls[c].res.fee
          /\ calls[c].res.tx.change >= 0
          /\ NumOutputs(calls[c].res.tx) = 1 <=> calls[c].res.tx.change = 0
    /\ \A c \in Estimated :
          calls[c].res.err = "change" =>
              /\ calls[c].p.compoundingUTXO
              /\ calls[c].res.fee > 0
    /\ \A r \in rpcTxs :
          /\ r.fee = calls[r.call].res.fee
          /\ SumSat(r.inputs, utxoInfo) = r.outputs + r.fee

(* A transaction with a fee and no change output was handed to the node. *)
C10_Witness ==
    \E r \in rpcTxs :
        /\ r.fee > 0
        /\ calls[r.call].res.tx.change = 0
        /\ SumSat(r.inputs, utxoInfo) = r.outputs + r.fee

----------------------------------------------------------------------------
(* Wallet.findUtxos and Wallet.addressDiscovery *)

MinOf(S) == CHOOSE x \in S : \A y \in S : x <= y
MaxOf(S) == CHOOSE x \in S : \A y \in S : x >= y

(* The outputs the node reports for an address. *)
OutpointsAt(a, own) == {o \in Outpoints : own[o] = a}

(* The indices of a scan window that are active on the node. *)
ActiveIn(chain, offset, n, own) ==
    {i \in offset..(offset + n - 1) : OutpointsAt(<<chain, i>>, own) # {}}

(* What findUtxos reads and writes: the UTXO collections, utxoStorage, the
   notification state, both address chains and the addresses notified
   last; batches is the history of its address batches. *)
WalletUtxos ==
    [confirmed |-> confirmed, pending |-> pending, used |-> used,
     storage |-> utxoStorage, n |-> NotifyState, batches |-> <<>>,
     receive |-> receiveAddress, change |-> changeAddress,
     lastReceive |-> lastReceiveNotification,
     lastChange |-> lastAddressNotification]

(* emitAddress() *)
EmitAddress(u) ==
    IF u.receive.cursor = u.lastReceive /\ u.change.cursor = u.lastChange
    THEN u
    ELSE [u EXCEPT !.lastReceive = u.receive.cursor,
                   !.lastChange = u.change.cursor,
                   !.n.events = Append(@, "new-address")]

(* The wallet's handler of the address manager's new-address event. *)
OnNewAddress(u) == IF u.n.syncing THEN u ELSE EmitAddress(u)

(* utxoSet.add of one output (spec 4.2): a known outpoint is left alone, a
   new one is classified by maturity and its amount added to the balance. *)
AddUtxo(o, u, score, info) ==
    IF o \in u.confirmed \cup u.pending \cup u.used THEN u
    ELSE [u EXCEPT
            !.confirmed = IF IsMatureAt(o, score, info) THEN @ \cup {o} ELSE @,
            !.pending = IF IsMatureAt(o, score, info) THEN @ ELSE @ \cup {o},
            !.n = AdjustBalance(IsMatureAt(o, score, info),
                                info[o].satoshis, TRUE, u.n)]

RECURSIVE AddUtxos(_, _, _, _)
AddUtxos(os, u, score, info) ==
    IF os = {} THEN u
    ELSE CHOOSE r \in {AddUtxos(os \ {MinOf(os)}, u1, score, info) :
                         u1 \in {AddUtxo(MinOf(os), u, score, info)}} : TRUE

(* The batch of one address is closed: notifications are enabled again and
   emitBalance() is called.  u0 is the state when the batch was opened. *)
CloseBatch(a, u0, u) ==
    CHOOSE r \in
      {[u2 EXCEPT !.batches = Append(@,
           [address |-> a,
            during |-> Len(u.n.events) - Len(u0.n.events),
            after |-> Len(u2.n.events) - Len(u.n.events),
            disabled |-> u.n.disabled])] :
         u2 \in {[u EXCEPT !.n = EmitBalance([u.n EXCEPT !.disabled = FALSE])]}}
      : TRUE

(* One entry of utxosMap: an address with outputs is a batch. *)
FindBatch(a, os, u, score, info) ==
    IF os = {} THEN u
    ELSE CHOOSE r \in
           {CloseBatch(a, u, u1) :
              u1 \in {AddUtxos(os, [u EXCEPT !.n.disabled = TRUE,
                                             !.storage = @ \cup {a}],
                               score, info)}} : TRUE

(* utxosMap.forEach over the addresses i..hi-1 of the chain. *)
RECURSIVE FindBatches(_, _, _, _, _, _, _)
FindBatches(chain, i, hi, u, score, info, own) ==
    IF i >= hi THEN u
    ELSE CHOOSE r \in
           {FindBatches(chain, i + 1, hi, u1, score, info, own) :
              u1 \in {FindBatch(<<chain, i>>, OutpointsAt(<<chain, i>>, own),
                                u, score, info)}} : TRUE

(* After the batches: activity on the current receive address moves the
   receive chain on, which raises new-address. *)
ReceiveActivity(u) ==
    IF <<"receive", u.receive.cursor>> \in u.storage
    THEN OnNewAddress([u EXCEPT !.receive = ChangeNext(@)])
    ELSE u

(* findUtxos(addresses) once getUtxosByAddresses has answered, for the
   addresses offset..offset+n-1 of the chain. *)
FindUtxos(chain, offset, n, u, score, info, own) ==
    CHOOSE r \in
      {ReceiveActivity(u1) :
         u1 \in {FindBatches(chain, offset, offset + n, u, score, info, own)}}
      : TRUE

(* advance(n) (spec 4.1): the chain is set to n, which raises new-address. *)
Advance(n) == [counter |-> n, cursor |-> n]

(* doDiscovery on an empty window: the index of the last active address. *)
LastAddressIndexWithTx(offset, threshold, n) == offset - (threshold - n) - 1

(* Mutant: the next window is one address short. *)
NAddressesLeftShort(active) == MaxOf(active \cup {0})

(* doDiscovery on a window with activity: the size of the next window. *)
NAddressesLeft(active) == MaxOf(active \cup {0}) + 1

(* addressDiscovery after both chains are scanned: advance both, subscribe
   unless the wallet syncs once or is syncing. *)
DiscoveryFinish(d, u, once, highestChange) ==
    [rec |-> [d EXCEPT
                !.highest["change"] = highestChange,
                !.advanced = [receive |-> d.highest["receive"] + 1,
                              change |-> highestChange + 1],
                !.pc = IF once # "true" /\ ~u.n.syncing
                       THEN "subscribing" ELSE "done"],
     u |-> OnNewAddress(
             [OnNewAddress([u EXCEPT
                 !.receive = Advance(d.highest["receive"] + 1)])
              EXCEPT !.change = Advance(highestChange + 1)])]

(* doDiscovery after findUtxos has returned for its window. *)
DoDiscovery(d, u, once, active) ==
    IF active # {}
    THEN [rec |-> [d EXCEPT !.n = NAddressesLeft(active),
                            !.offset = d.offset + d.n],
          u |-> u]
    ELSE IF d.chain = "receive"
    THEN [rec |-> [d EXCEPT
                     !.highest["receive"] =
                        LastAddressIndexWithTx(d.offset, d.threshold, d.n),
                     !.chain = "change", !.n = d.threshold, !.offset = 0],
          u |-> u]
    ELSE DiscoveryFinish(d, u, once,
                         LastAddressIndexWithTx(d.offset, d.threshold, d.n))

(* The history of a call takes in the window just answered. *)
Queried(d, active) ==
    [d EXCEPT !.queried[d.chain] = @ \cup (d.offset..(d.offset + d.n - 1)),
              !.lastEmpty[d.chain] = (active = {}),
              !.windows = @ + 1]

(* The wallet takes over what findUtxos and addressDiscovery left. *)
SetWalletUtxos(u) ==
    /\ confirmed' = u.confirmed
    /\ pending' = u.pending
    /\ utxoStorage' = u.storage
    /\ SetNotifyState(u.n)
    /\ emitted' = u.n.events
    /\ batches' = u.batches
    /\ receiveAddress' = u.receive
    /\ changeAddress' = u.change
    /\ lastReceiveNotification' = u.lastReceive
    /\ lastAddressNotification' = u.lastChange

(* A caller invokes findUtxos on a window of addresses; the call runs to
   `await this.api.getUtxosByAddresses(addresses)`. *)
FindUtxosCall(d, chain, offset, n) ==
    /\ discoveries[d].pc = "idle"
    /\ discoveries' = [discoveries EXCEPT ![d] =
          [NoDiscovery EXCEPT !.op = "findUtxos", !.pc = "rpc",
                              !.chain = chain, !.offset = offset, !.n = n]]
    /\ emitted' = <<>>
    /\ notified' = <<>>
    /\ UNCHANGED <<identityVars, managerVars, utxoInfo, confirmed, pending, used, inUse, balance,
                   blueScore, defaultFee, changeAddress,
                   lastAddressNotification, txStore, calls, rpcTxs,
                   balanceTotal, lastBalanceNotification,
                   disableBalanceNotifications, syncInProggress, history,
                   batches, receiveAddress, lastReceiveNotification, owner,
                   utxoStorage, syncVars>>

(* A caller invokes addressDiscovery(threshold); the call derives the first
   receive window and runs to the await in findUtxos. *)
AddressDiscoveryCall(d, threshold) ==
    /\ discoveries[d].pc = "idle"
    /\ discoveries' = [discoveries EXCEPT ![d] =
          [NoDiscovery EXCEPT !.op = "addressDiscovery", !.pc = "rpc",
                              !.threshold = threshold, !.chain = "receive",
                              !.offset = 0, !.n = threshold]]
    /\ emitted' = <<>>
    /\ notified' = <<>>
    /\ UNCHANGED <<identityVars, managerVars, utxoInfo, confirmed, pending, used, inUse, balance,
                   blueScore, defaultFee, changeAddress,
                   lastAddressNotification, txStore, calls, rpcTxs,
                   balanceTotal, lastBalanceNotification,
                   disableBalanceNotifications, syncInProggress, history,
                   batches, receiveAddress, lastReceiveNotification, owner,
                   utxoStorage, syncVars>>

(* The sync whose addressDiscovery calls utxoSubscribe() counts the call;
   a discovery called on its own belongs to no sync. *)
SubscribedBy(s) ==
    IF s \in SyncIds THEN [syncs EXCEPT ![s].subscribes = @ + 1] ELSE syncs

(* getUtxosByAddresses answers: findUtxos adds the batches and returns; a
   discovery goes on to its next window, its next chain or its end. *)
UtxosReturned(d) ==
    /\ discoveries[d].pc = "rpc"
    /\ connected = "true"
    /\ \E u \in {FindUtxos(discoveries[d].chain, discoveries[d].offset,
                           discoveries[d].n, WalletUtxos, blueScore,
                           utxoInfo, owner)},
          active \in {ActiveIn(discoveries[d].chain, discoveries[d].offset,
                               discoveries[d].n, owner)} :
        IF discoveries[d].op = "findUtxos"
        THEN /\ SetWalletUtxos(u)
             /\ discoveries' = [discoveries EXCEPT ![d] =
                   [Queried(@, active) EXCEPT !.pc = "done"]]
             /\ UNCHANGED <<utxoSubscriptions, syncs>>
        ELSE \E next \in {DoDiscovery(Queried(discoveries[d], active), u,
                                      syncOnce, active)} :
               /\ SetWalletUtxos(next.u)
               /\ discoveries' = [discoveries EXCEPT ![d] = next.rec]
               /\ IF next.rec.pc = "subscribing"
                  THEN /\ utxoSubscriptions' = utxoSubscriptions + 1
                       /\ syncs' = SubscribedBy(next.rec.sync)
                  ELSE UNCHANGED <<utxoSubscriptions, syncs>>
    /\ UNCHANGED <<identityVars, managerVars, utxoInfo, used, inUse, blueScore, defaultFee, txStore,
                   calls, rpcTxs, syncInProggress, owner, connected,
                   connectSignal, syncOnce, syncSignal, resolvedSignals,
                   syncVirtualSelectedParentBlueScoreStarted,
                   blueScoreSubscriptions>>

(* getUtxosByAddresses rejects: findUtxos and the discovery reject. *)
UtxosRejected(d) ==
    /\ discoveries[d].pc = "rpc"
    /\ discoveries' = [discoveries EXCEPT ![d].pc = "failed"]
    /\ emitted' = <<>>
    /\ notified' = <<>>
    /\ UNCHANGED <<identityVars, managerVars, utxoInfo, confirmed, pending, used, inUse, balance,
                   blueScore, defaultFee, changeAddress,
                   lastAddressNotification, txStore, calls, rpcTxs,
                   balanceTotal, lastBalanceNotification,
                   disableBalanceNotifications, syncInProggress, history,
                   batches, receiveAddress, lastReceiveNotification, owner,
                   utxoStorage, syncVars>>

(* utxoSubscribe() of addressDiscovery resolves: the discovery returns. *)
DiscoverySubscribed(d) ==
    /\ discoveries[d].pc = "subscribing"
    /\ connected = "true"
    /\ discoveries' = [discoveries EXCEPT ![d].pc = "done"]
    /\ emitted' = <<>>
    /\ notified' = <<>>
    /\ UNCHANGED <<identityVars, managerVars, utxoInfo, confirmed, pending, used, inUse, balance,
                   blueScore, defaultFee, changeAddress,
                   lastAddressNotification, txStore, calls, rpcTxs,
                   balanceTotal, lastBalanceNotification,
                   disableBalanceNotifications, syncInProggress, history,
                   batches, receiveAddress, lastReceiveNotification, owner,
                   utxoStorage, syncVars>>

----------------------------------------------------------------------------
(* Wallet.sync, initBlueScoreSync, onApiConnect, onApiDisconnect.  The node
   answers a request only while the rpc is connected; a request can be
   rejected at any time. *)

IdleSyncs == {s \in SyncIds : syncs[s].pc = "idle"}

(* options.syncOnce is false by default. *)
ResolveSyncOnce(arg) == arg = "true"

(* sync() creates its sync signal and runs to `await this.connectSignal`. *)
SyncEnter(s, arg, auto) ==
    /\ syncs[s].pc = "idle"
    /\ syncSignal' = syncSignal + 1
    /\ syncs' = [syncs EXCEPT ![s] =
          [NoSync EXCEPT !.pc = "connect", !.arg = arg, !.auto = auto,
                         !.signal = syncSignal + 1]]

(* A caller invokes sync(syncOnce). *)
SyncCall(s, arg) ==
    /\ s = MinOf(IdleSyncs \cup {MaxSyncs + 1})
    /\ SyncEnter(s, arg, FALSE)
    /\ emitted' = <<>>
    /\ notified' = <<>>
    /\ UNCHANGED <<identityVars, managerVars, utxoInfo, confirmed, pending, used, inUse, balance,
                   blueScore, defaultFee, changeAddress,
                   lastAddressNotification, txStore, calls, rpcTxs,
                   balanceTotal, lastBalanceNotification,
                   disableBalanceNotifications, syncInProggress, history,
                   batches, discoveryVars, connected, connectSignal,
                   syncOnce, resolvedSignals,
                   syncVirtualSelectedParentBlueScoreStarted,
                   blueScoreSubscriptions, utxoSubscriptions>>

(* Mutant: a sync restarts only when the wallet's sync signal is resolved. *)
RestartsSyncWhenResolved(signal, resolved, was) ==
    signal \in resolved /\ was # "undefined"

(* onApiConnect restarts the sync `if sync was called` and the wallet has
   been connected or disconnected before. *)
RestartsSync(signal, resolved, was) == signal # 0 /\ was # "undefined"

(* The rpc connects: onApiConnect. *)
ApiConnect ==
    /\ connected # "true"
    /\ connectSignal' = TRUE
    /\ connected' = "true"
    /\ emitted' = <<"api-connect">>
    /\ notified' = <<>>
    /\ IF RestartsSync(syncSignal, resolvedSignals, connected)
       THEN /\ IdleSyncs # {}
            /\ SyncEnter(MinOf(IdleSyncs), syncOnce, TRUE)
       ELSE UNCHANGED <<syncSignal, syncs>>
    /\ UNCHANGED <<identityVars, managerVars, utxoInfo, confirmed, pending, used, inUse, balance,
                   blueScore, defaultFee, changeAddress,
                   lastAddressNotification, txStore, calls, rpcTxs,
                   balanceTotal, lastBalanceNotification,
                   disableBalanceNotifications, syncInProggress, history,
                   batches, discoveryVars, syncOnce, resolvedSignals,
                   syncVirtualSelectedParentBlueScoreStarted,
                   blueScoreSubscriptions, utxoSubscriptions>>

(* The rpc disconnects: onApiDisconnect.  The subscriptions of the
   connection are gone with it; live marks the syncs that have started
   since. *)
ApiDisconnect ==
    /\ connected = "true"
    /\ connected' = "false"
    /\ syncVirtualSelectedParentBlueScoreStarted' = FALSE
    /\ blueScoreSubscriptions' = 0
    /\ utxoSubscriptions' = 0
    /\ emitted' = <<"api-disconnect">>
    /\ notified' = <<>>
    /\ syncs' = [s \in SyncIds |-> [syncs[s] EXCEPT !.live = FALSE]]
    /\ UNCHANGED <<identityVars, managerVars, utxoInfo, confirmed, pending, used, inUse, balance,
                   blueScore, defaultFee, changeAddress,
                   lastAddressNotification, txStore, calls, rpcTxs,
                   balanceTotal, lastBalanceNotification,
                   disableBalanceNotifications, syncInProggress, history,
                   batches, discoveryVars, connectSignal, syncOnce,
                   syncSignal, resolvedSignals>>

(* The discovery a sync starts: addressDiscovery(addressDiscoveryExtent). *)
SyncDiscovery(s) ==
    [NoDiscovery EXCEPT !.op = "addressDiscovery", !.pc = "rpc",
                        !.threshold = DiscoveryExtent, !.chain = "receive",
                        !.offset = 0, !.n = DiscoveryExtent, !.sync = s]

(* Mutant: the guard refuses every sync while a continuous one is active. *)
AlreadyRunningAny(walletSyncOnce, once) == walletSyncOnce = "false"

(* The guard of sync: a one-shot sync while the last sync was continuous. *)
AlreadyRunning(walletSyncOnce, once) == walletSyncOnce = "false" /\ once

(* initAddressManager(): the first call puts the wallet's new-address
   handler on the address manager the wallet holds at that moment; later
   calls return at once. *)
InitAddressManager ==
    /\ addressManagerInitialized' = TRUE
    /\ addressManager' = IF addressManagerInitialized THEN addressManager
                         ELSE [addressManager EXCEPT !.listening = TRUE]
    /\ UNCHANGED <<options, addressSyncs>>

(* sync resumes after `await this.connectSignal`: sync-start, the guard,
   initAddressManager, then initBlueScoreSync up to its fetch, or, when the blue-score sync has
   been started already, on to the discovery's first request.  The calls
   waiting on the signal resume in the order they were made. *)
SyncConnected(s) ==
    /\ syncs[s].pc = "connect"
    /\ connectSignal
    /\ \A t \in SyncIds : syncs[t].pc = "connect" => s <= t
    /\ syncInProggress' = TRUE
    /\ emitted' = <<"sync-start">>
    /\ notified' = <<>>
    /\ \E once \in {ResolveSyncOnce(syncs[s].arg)} :
         IF AlreadyRunning(syncOnce, once)
         THEN /\ syncs' = [syncs EXCEPT ![s].pc = "rejected",
                                        ![s].once = once,
                                        ![s].started = TRUE,
                                        ![s].live = TRUE]
              /\ UNCHANGED <<syncOnce, discoveries, managerVars,
                             syncVirtualSelectedParentBlueScoreStarted>>
         ELSE /\ syncOnce' = IF once THEN "true" ELSE "false"
              /\ InitAddressManager
              /\ IF syncVirtualSelectedParentBlueScoreStarted
                 THEN /\ syncs' = [syncs EXCEPT ![s].pc = "discovery",
                                                ![s].once = once,
                                                ![s].started = TRUE,
                                                ![s].live = TRUE]
                      /\ discoveries' =
                           [discoveries EXCEPT ![s] = SyncDiscovery(s)]
                      /\ UNCHANGED syncVirtualSelectedParentBlueScoreStarted
                 ELSE /\ syncs' = [syncs EXCEPT ![s].pc = "fetch",
                                                ![s].once = once,
                                                ![s].started = TRUE,
                                                ![s].live = TRUE,
                                                ![s].requests = @ + 1,
                                                ![s].fetch = "pending"]
                      /\ syncVirtualSelectedParentBlueScoreStarted' = TRUE
                      /\ UNCHANGED discoveries
    /\ UNCHANGED <<identityVars, utxoInfo, confirmed, pending, used, inUse, balance,
                   blueScore, defaultFee, changeAddress,
                   lastAddressNotification, txStore, calls, rpcTxs,
                   balanceTotal, lastBalanceNotification,
                   disableBalanceNotifications, history, batches,
                   receiveAddress, lastReceiveNotification, owner,
                   utxoStorage, connected, connectSignal, syncSignal,
                   resolvedSignals, blueScoreSubscriptions,
                   utxoSubscriptions>>

(* utxoSet.updateUtxoBalance() (spec 4.2): outputs move between confirmed
   and pending by maturity, the balance follows, balance-update is emitted
   if it changed. *)
UpdateUtxoBalance(u, score, info) ==
    CHOOSE r \in
      {[u EXCEPT
          !.confirmed = conf, !.pending = (u.confirmed \cup u.pending) \ conf,
          !.n = EmitBalance(
                  [u.n EXCEPT
                     !.balance = [available |-> SumSat(conf, info),
                                  pending |-> SumSat((u.confirmed \cup u.pending)
                                                     \ conf, info)],
                     !.total = SumSat(u.confirmed \cup u.pending, info)])] :
         conf \in {{o \in u.confirmed \cup u.pending :
                      IsMatureAt(o, score, info)}}} : TRUE

(* Mutant: the score is stored and announced, the outputs stay as filed. *)
BlueScoreStoredOnly(u, score, info) == u

(* initBlueScoreSync and its subscription handler, after they have stored
   the score and emitted blue-score-changed: utxoSet.updateUtxoBalance(). *)
BlueScoreStored(u, score, info) == UpdateUtxoBalance(u, score, info)

(* initBlueScoreSync subscribes unless it runs once. *)
SubscribesBlueScore(once) == ~once

(* The node's blue score when it is asked: not below what it has told. *)
NodeBlueScores ==
    {b \in InitBlueScore..MaxBlueScore : b >= blueScore}

(* getVirtualSelectedParentBlueScore answers: initBlueScoreSync stores the
   score, emits blue-score-changed, updates the balance and subscribes
   unless it runs once; sync goes on to the discovery's first request. *)
BlueScoreFetched(s) ==
    /\ syncs[s].pc = "fetch"
    /\ connected = "true"
    /\ \E score \in NodeBlueScores :
         /\ blueScore' = score
         /\ \E u \in {BlueScoreStored(
                        [WalletUtxos EXCEPT
                           !.n.events = <<"blue-score-changed">>],
                        score, utxoInfo)} :
              /\ confirmed' = u.confirmed
              /\ pending' = u.pending
              /\ SetNotifyState(u.n)
              /\ emitted' = u.n.events
    /\ IF SubscribesBlueScore(syncs[s].once)
       THEN /\ blueScoreSubscriptions' = blueScoreSubscriptions + 1
            /\ UNCHANGED syncVirtualSelectedParentBlueScoreStarted
       ELSE /\ syncVirtualSelectedParentBlueScoreStarted' = FALSE
            /\ UNCHANGED blueScoreSubscriptions
    /\ syncs' = [syncs EXCEPT ![s].pc = "discovery", ![s].fetch = "ok"]
    /\ discoveries' = [discoveries EXCEPT ![s] = SyncDiscovery(s)]
    /\ UNCHANGED <<identityVars, managerVars, utxoInfo, used, inUse, defaultFee, changeAddress,
                   lastAddressNotification, txStore, calls, rpcTxs,
                   syncInProggress, batches, receiveAddress,
                   lastReceiveNotification, owner, utxoStorage, connected,
                   connectSignal, syncOnce, syncSignal, resolvedSignals,
                   utxoSubscriptions>>

(* Mutant: the rejection of the fetch rejects the sync. *)
FetchUncaught(sync) == [sync EXCEPT !.pc = "rejected", !.fetch = "failed"]

(* `.catch` of sync on initBlueScoreSync: the error is logged. *)
FetchCaught(sync) == [sync EXCEPT !.pc = "discovery", !.fetch = "failed"]

(* getVirtualSelectedParentBlueScore rejects: sync logs the error and goes
   on to the discovery's first request. *)
BlueScoreFetchRejected(s) ==
    /\ syncs[s].pc = "fetch"
    /\ syncs' = [syncs EXCEPT ![s] = FetchCaught(@)]
    /\ discoveries' =
         IF FetchCaught(syncs[s]).pc = "discovery"
         THEN [discoveries EXCEPT ![s] = SyncDiscovery(s)]
         ELSE discoveries
    /\ emitted' = <<>>
    /\ notified' = <<>>
    /\ UNCHANGED <<identityVars, managerVars, utxoInfo, confirmed, pending, used, inUse, balance,
                   blueScore, defaultFee, changeAddress,
                   lastAddressNotification, txStore, calls, rpcTxs,
                   balanceTotal, lastBalanceNotification,
                   disableBalanceNotifications, syncInProggress, history,
                   batches, receiveAddress, lastReceiveNotification, owner,
                   utxoStorage, connected, connectSignal, syncOnce,
                   syncSignal, resolvedSignals,
                   syncVirtualSelectedParentBlueScoreStarted,
                   blueScoreSubscriptions, utxoSubscriptions>>

(* The payload of ready. *)
ReadyPayload(bal, count) ==
    [event |-> "ready", available |-> bal.available, pending |-> bal.pending,
     total |-> bal.available + bal.pending, confirmedUtxosCount |-> count]

(* The end of sync: sync-finish, ready, emitBalance(), emitAddress(),
   txStore.emitTxs(); then, after the signal is resolved, clearMissing()
   finds nothing to drop and updateDebugInfo() emits debug-info. *)
SyncEvents(u) ==
    CHOOSE r \in
      {[u2 EXCEPT !.n.events = @ \o <<"transactions", "debug-info">>] :
         u2 \in {EmitAddress(
                   [u EXCEPT
                      !.n = EmitBalance(
                              [u.n EXCEPT
                                 !.events = @ \o <<"sync-finish", "ready">>,
                                 !.notified = Append(@,
                                    ReadyPayload(u.n.balance,
                                                 Cardinality(u.confirmed)))])])}}
      : TRUE

(* sync runs to its end and resolves the wallet's sync signal. *)
SyncFinish(s) ==
    /\ \E u \in {SyncEvents([WalletUtxos EXCEPT !.n.syncing = FALSE])} :
         /\ SetNotifyState(u.n)
         /\ emitted' = u.n.events
         /\ lastReceiveNotification' = u.lastReceive
         /\ lastAddressNotification' = u.lastChange
    /\ resolvedSignals' = resolvedSignals \cup {syncSignal}
    /\ syncs' = [syncs EXCEPT ![s].pc = "done", ![s].resolved = syncSignal]

(* sync resumes after the discovery has returned or rejected: the wallet is
   no longer syncing; a continuous sync calls utxoSubscribe() and awaits
   it, a one-shot sync runs to its end. *)
SyncDiscovered(s) ==
    /\ syncs[s].pc = "discovery"
    /\ discoveries[s].sync = s
    /\ discoveries[s].pc \in {"done", "failed"}
    /\ syncInProggress' = FALSE
    /\ IF syncs[s].once
       THEN /\ SyncFinish(s)
            /\ UNCHANGED utxoSubscriptions
       ELSE /\ syncs' = [syncs EXCEPT ![s].pc = "subscribe",
                                      ![s].requests = @ + 1,
                                      ![s].subscribes = @ + 1]
            /\ utxoSubscriptions' = utxoSubscriptions + 1
            /\ emitted' = <<>>
            /\ notified' = <<>>
            /\ UNCHANGED <<balance, balanceTotal, lastBalanceNotification,
                           disableBalanceNotifications, history,
                           lastReceiveNotification, lastAddressNotification,
                           resolvedSignals>>
    /\ UNCHANGED <<identityVars, managerVars, utxoInfo, confirmed, pending, used, inUse, blueScore,
                   defaultFee, changeAddress, txStore, calls, rpcTxs,
                   batches, receiveAddress, owner, utxoStorage, discoveries,
                   connected, connectSignal, syncOnce, syncSignal,
                   syncVirtualSelectedParentBlueScoreStarted,
                   blueScoreSubscriptions>>

(* utxoSubscribe() resolves: the continuous sync runs to its end. *)
SyncSubscribed(s) ==
    /\ syncs[s].pc = "subscribe"
    /\ connected = "true"
    /\ SyncFinish(s)
    /\ UNCHANGED <<identityVars, managerVars, utxoInfo, confirmed, pending, used, inUse, blueScore,
                   defaultFee, changeAddress, txStore, calls, rpcTxs,
                   syncInProggress, batches, receiveAddress, owner,
                   utxoStorage, discoveries, connected, connectSignal,
                   syncOnce, syncSignal,
                   syncVirtualSelectedParentBlueScoreStarted,
                   blueScoreSubscriptions, utxoSubscriptions>>

(* The node's blue score changes and reaches the subscribed wallet. *)
BlueScoreNotified ==
    /\ blueScoreSubscriptions > 0
    /\ blueScore >= InitBlueScore
    /\ blueScore < MaxBlueScore
    /\ blueScore' = blueScore + 1
    /\ \E u \in {BlueScoreStored(
                   [WalletUtxos EXCEPT !.n.events = <<"blue-score-changed">>],
                   blueScore + 1, utxoInfo)} :
         /\ confirmed' = u.confirmed
         /\ pending' = u.pending
         /\ SetNotifyState(u.n)
         /\ emitted' = u.n.events
    /\ UNCHANGED <<identityVars, managerVars, utxoInfo, used, inUse, defaultFee, changeAddress,
                   lastAddressNotification, txStore, calls, rpcTxs,
                   syncInProggress, batches, discoveryVars, syncVars>>

----------------------------------------------------------------------------
(* The wallet after construction. *)

(* The fields the constructor and the field initialisers set, over the
   outputs the node holds. *)
ConstructedFields(info, own) ==
    /\ utxoInfo = info
    /\ blueScore = -1
    /\ confirmed = {}
    /\ pending = {}
    /\ used = {}
    /\ inUse = <<>>
    /\ balance = [available |-> 0, pending |-> 0]
    /\ defaultFee = 1
    /\ changeAddress = [counter |-> 0, cursor |-> 0]
    /\ lastAddressNotification = -1
    /\ txStore = {}
    /\ calls = [c \in CallIds |-> NoCall]
    /\ rpcTxs = {}
    /\ balanceTotal = 0
    /\ lastBalanceNotification = [available |-> 0, pending |-> 0]
    /\ disableBalanceNotifications = FALSE
    /\ history = [confirmed |-> 0, pending |-> 0, calls |-> 0,
                  lastUpdate |-> [available |-> 0, pending |-> 0]]
    /\ batches = <<>>
    /\ notified = <<>>
    /\ receiveAddress = [counter |-> 0, cursor |-> 0]
    /\ lastReceiveNotification = -1
    /\ owner = own
    /\ utxoStorage = {}
    /\ discoveries = [d \in DiscoveryIds |-> NoDiscovery]
    /\ resolvedSignals = {}
    /\ blueScoreSubscriptions = 0
    /\ utxoSubscriptions = 0

(* The wallet as constructed: not connected, sync never called. *)
ConstructedWallet(info, own) ==
    /\ ConstructedFields(info, own)
    /\ ManagerMade
    /\ emitted = <<>>
    /\ syncInProggress = FALSE
    /\ connected = "undefined"
    /\ connectSignal = FALSE
    /\ syncOnce = "undefined"
    /\ syncSignal = 0
    /\ syncVirtualSelectedParentBlueScoreStarted = FALSE
    /\ syncs = [s \in SyncIds |-> NoSync]

Constructed(info, own) == ConstructedWallet(info, own) /\ OneWallet

(* The constructed wallet once the rpc has connected. *)
ConnectedWallet(info, own) ==
    /\ ConstructedFields(info, own)
    /\ OneWallet
    /\ emitted = <<"api-connect">>
    /\ syncInProggress = FALSE
    /\ connected = "true"
    /\ connectSignal = TRUE
    /\ syncOnce = "undefined"
    /\ syncSignal = 0
    /\ syncVirtualSelectedParentBlueScoreStarted = FALSE
    /\ syncs = [s \in SyncIds |-> NoSync]

Connected(info, own) == ConnectedWallet(info, own) /\ ManagerMade

(* The connected wallet whose first sync, a continuous one, waits for the
   node's blue score. *)
AwaitingBlueScore(info, own) ==
    /\ ConstructedFields(info, own)
    /\ OneWallet
    /\ ManagerInitialized
    /\ emitted = <<"sync-start">>
    /\ syncInProggress = TRUE
    /\ connected = "true"
    /\ connectSignal = TRUE
    /\ syncOnce = "false"
    /\ syncSignal = 1
    /\ syncVirtualSelectedParentBlueScoreStarted = TRUE
    /\ syncs = [s \in SyncIds |->
                  IF s = 1
                  THEN [NoSync EXCEPT !.pc = "fetch", !.arg = "false",
                                      !.signal = 1, !.started = TRUE,
                                      !.live = TRUE, !.requests = 1,
                                      !.fetch = "pending"]
                  ELSE NoSync]

(* The addresses of the node's outputs. *)
Addresses == {<<chain, i>> : chain \in Chains, i \in 0..MaxIndex}

UtxoInfos == [Outpoints -> [satoshis : {400}, blockBlueScore : {0}]]

----------------------------------------------------------------------------
(* SpecDiscovery: addressDiscovery called on a connected wallet, for every
   gap limit and every placement of the node's outputs on the addresses. *)

InitDiscovery ==
    \E info \in UtxoInfos, own \in [Outpoints -> Addresses] :
        Connected(info, own)

NextDiscovery ==
    \/ \E d \in DiscoveryIds, threshold \in 1..MaxThreshold :
          AddressDiscoveryCall(d, threshold)
    \/ \E d \in DiscoveryIds : UtxosReturned(d)
    \/ \E d \in DiscoveryIds : UtxosRejected(d)
    \/ \E d \in DiscoveryIds : DiscoverySubscribed(d)

SpecDiscovery == InitDiscovery /\ [][NextDiscovery]_vars

(* The address discoveries that have scanned both chains. *)
Discovered ==
    {d \in DiscoveryIds : /\ discoveries[d].op = "addressDiscovery"
                          /\ discoveries[d].pc \in {"subscribing", "done"}}

(* The indices of a chain a discovery has queried and found active. *)
ActiveQueried(d, chain) ==
    {i \in discoveries[d].queried[chain] :
       OutpointsAt(<<chain, i>>, owner) # {}}

(* C11: when an address discovery has scanned both chains, the highest
   index it has determined for each chain is the largest index it has found
   with outputs (-1 when it has found none), and it has advanced the chain
   to that index plus one. *)
C11_HighestIsLargestActive ==
    \A d \in Discovered, chain \in Chains :
        /\ discoveries[d].highest[chain] =
             MaxOf(ActiveQueried(d, chain) \cup {-1})
        /\ discoveries[d].advanced[chain] =
             MaxOf(ActiveQueried(d, chain) \cup {-1}) + 1

(* C12: a discovery asks for at most one window per output of the node
   and one closing window per chain; once both chains are scanned, the
   last window of each chain was empty, every index from 0 to the end of
   the last window was queried, and the gap-limit many indices after the
   highest active index were queried and had no outputs. *)
C12_ScanCoversGap ==
    /\ \A d \in DiscoveryIds : discoveries[d].windows <= NumUtxos + 2
    /\ \A d \in Discovered, chain \in Chains :
         /\ discoveries[d].lastEmpty[chain]
         /\ discoveries[d].queried[chain] =
              0..MaxOf(discoveries[d].queried[chain])
         /\ \A i \in 1..discoveries[d].threshold :
              LET j == MaxOf(ActiveQueried(d, chain) \cup {-1}) + i
              IN /\ j \in discoveries[d].queried[chain]
                 /\ OutpointsAt(<<chain, j>>, owner) = {}

(* A discovery has finished that found activity in a second window. *)
C12_Witness ==
    \E d \in Discovered :
        /\ discoveries[d].pc = "done"
        /\ discoveries[d].windows >= 5

----------------------------------------------------------------------------
(* SpecBalance: a connected wallet, idle or with its first sync in flight,
   whose balance methods and findUtxos are called in any order. *)

AdjustDeltas == {-1, 2}

BalanceAddresses == {<<"receive", 0>>, <<"receive", 1>>}

InitBalance ==
    \E info \in UtxoInfos, own \in [Outpoints -> BalanceAddresses] :
        \/ Connected(info, own)
        \/ AwaitingBlueScore(info, own)

NextBalance ==
    \/ \E isConfirmed \in BOOLEAN, amount \in AdjustDeltas,
          notify \in BOOLEAN : AdjustBalanceCall(isConfirmed, amount, notify)
    \/ EmitBalanceCall
    \/ \E d \in DiscoveryIds, n \in 1..2 :
          FindUtxosCall(d, "receive", 0, n)
    \/ \E d \in DiscoveryIds : UtxosReturned(d)
    \/ \E d \in DiscoveryIds : UtxosRejected(d)

SpecBalance == InitBalance /\ [][NextBalance]_vars

(* C18: the confirmed balance is the sum of the deltas passed to
   adjustBalance with isConfirmed = true, the pending balance the sum of
   the others, the stored total their sum, and every balance-update and
   ready payload carries total = available + pending. *)
C18_BalanceIsSumOfDeltas ==
    /\ balance.available = history.confirmed
    /\ balance.pending = history.pending
    /\ balanceTotal = balance.available + balance.pending
    /\ \A i \in 1..Len(notified) :
         notified[i].total = notified[i].available + notified[i].pending

(* adjustBalance has been called with confirmed and pending deltas and a
   balance-update has just been emitted. *)
C18_Witness ==
    /\ history.calls >= 2
    /\ history.confirmed # 0
    /\ history.pending # 0
    /\ \E i \in 1..Len(notified) : notified[i].event = "balance-update"

(* The balance-update payloads of a step, in order. *)
BalanceUpdates(seq) ==
    SelectSeq(seq, LAMBDA p : p.event = "balance-update")

PairOf(p) == [available |-> p.available, pending |-> p.pending]

(* C19: emitBalance emits balance-update exactly when (available,
   pending) differs from the pair notified last, and leaves
   lastBalanceNotification equal to the balance; no balance-update carries
   the pair of the balance-update before it. *)
C19_EmitBalanceOnChange ==
    [][/\ EmitBalanceCall =>
            /\ (emitted' = <<"balance-update">>) <=>
                 (\/ balance.available # lastBalanceNotification.available
                  \/ balance.pending # lastBalanceNotification.pending)
            /\ emitted' \in {<<>>, <<"balance-update">>}
            /\ lastBalanceNotification' = balance'
            /\ balance' = balance
       /\ \A i \in 1..Len(BalanceUpdates(notified')) :
            PairOf(BalanceUpdates(notified')[i]) #
              (IF i = 1 THEN history.lastUpdate
               ELSE PairOf(BalanceUpdates(notified')[i - 1]))]_vars

(* emitBalance has been called with a balance that differs in its pending
   part only, after an earlier balance-update. *)
C19_Witness ==
    /\ emitted = <<"balance-update">>
    /\ lastBalanceNotification = balance
    /\ balance.available # 0
    /\ balance.pending # 0
    /\ history.calls >= 2

(* C20: adjustBalance emits nothing while the wallet is syncing or has its
   balance notifications disabled, or when called with notify = false; no
   balance-update is emitted while findUtxos adds the outputs of an
   address, at most one when that batch is finished, and
   disableBalanceNotifications is false when findUtxos has returned. *)
C20_NotificationsSuppressed ==
    [][/\ \A isConfirmed \in BOOLEAN, amount \in AdjustDeltas,
             notify \in BOOLEAN :
            (/\ AdjustBalanceCall(isConfirmed, amount, notify)
             /\ (\/ disableBalanceNotifications
                 \/ syncInProggress
                 \/ ~notify)) => emitted' = <<>>
       /\ \A d \in DiscoveryIds :
            UtxosReturned(d) =>
              /\ ~disableBalanceNotifications'
              /\ \A i \in 1..Len(batches') :
                   /\ batches'[i].disabled
                   /\ batches'[i].during = 0
                   /\ batches'[i].after \in {0, 1}]_vars

(* findUtxos has just added the outputs of an address on a wallet that is
   not syncing, and emitted one balance-update when the batch was done. *)
C20_Witness ==
    /\ ~syncInProggress
    /\ ~disableBalanceNotifications
    /\ \E i \in 1..Len(batches) :
         batches[i].disabled /\ batches[i].after = 1
    /\ "balance-update" \in Range(emitted)

----------------------------------------------------------------------------
(* SpecSync: the wallet from its construction on: the rpc connects and
   disconnects, sync is called in either mode, and the node answers or
   rejects each request. *)

(* The node's outputs lie all on the first receive address, or on the
   second receive and the first change address, or beyond the gap. *)
SyncOwners ==
    {[o \in Outpoints |-> <<"receive", 0>>],
     [o \in Outpoints |-> IF o = 1 THEN <<"receive", 1>>
                          ELSE <<"change", 0>>],
     [o \in Outpoints |-> <<"receive", MaxIndex>>]}

(* The node's outputs: the first one a block younger than the others, so
   that it matures one blue score later. *)
SyncInfos ==
    {[o \in Outpoints |->
        [satoshis |-> 400, blockBlueScore |-> IF o = 1 THEN 1 ELSE 0]]}

InitSync ==
    \E info \in SyncInfos, own \in SyncOwners : Constructed(info, own)

NextSync ==
    \/ \E s \in SyncIds, arg \in {"true", "false"} : SyncCall(s, arg)
    \/ ApiConnect
    \/ ApiDisconnect
    \/ \E s \in SyncIds : SyncConnected(s)
    \/ \E s \in SyncIds : BlueScoreFetched(s)
    \/ \E s \in SyncIds : BlueScoreFetchRejected(s)
    \/ \E d \in DiscoveryIds : UtxosReturned(d)
    \/ \E d \in DiscoveryIds : UtxosRejected(d)
    \/ \E d \in DiscoveryIds : DiscoverySubscribed(d)
    \/ \E s \in SyncIds : SyncDiscovered(s)
    \/ \E s \in SyncIds : SyncSubscribed(s)
    \/ BlueScoreNotified

SpecSync == InitSync /\ [][NextSync]_vars

(* The sync calls that have run to their end. *)
Completed == {s \in SyncIds : syncs[s].pc = "done"}

(* Sync s runs to its end in this step. *)
Completes(s) == syncs[s].pc # "done" /\ syncs'[s].pc = "done"

(* Sync s resumes after `await this.connectSignal` in this step. *)
Resumes(s) == syncs[s].pc = "connect" /\ syncs'[s].pc # "connect"

(* The rpc connects in this step. *)
Connects == connected # "true" /\ connected' = "true"

(* onApiConnect starts a sync in this step, in the mode of the last one. *)
StartsSync ==
    \E t \in SyncIds : /\ syncs[t].pc = "idle"
                       /\ syncs'[t].pc = "connect"
                       /\ syncs'[t].auto
                       /\ syncs'[t].arg = syncOnce

(* C13: the sync signal a sync call has created is resolved only after
   that call has emitted sync-finish, ready, the balance and address
   notifications and the stored transactions. *)
C13_SignalResolvedAfterEvents ==
    \A s \in SyncIds :
        (syncs[s].signal # 0 /\ syncs[s].signal \in resolvedSignals)
            => syncs[s].pc = "done"

(* An RPC of sync s has been rejected. *)
RpcFailed(s) ==
    \/ syncs[s].fetch = "failed"
    \/ discoveries[s].sync = s /\ discoveries[s].pc = "failed"

(* C14: a sync is rejected only by its guard, never because the blue-score
   fetch or a discovery request was rejected; a sync with such a failure
   still emits sync-finish and ready and resolves the wallet's sync signal
   when it runs to its end; on the connect after a disconnect that follows
   a completed sync a new sync is started, and a sync started that way
   fetches the blue score unless a sync started since the disconnect has
   asked for it already. *)
C14_SyncSurvivesRpcErrors ==
    [][/\ \A s \in SyncIds :
            /\ (syncs[s].pc # "rejected" /\ syncs'[s].pc = "rejected")
                 => syncs[s].pc = "connect"
            /\ (Completes(s) /\ RpcFailed(s)) =>
                 /\ SubSeq(emitted', 1, 2) = <<"sync-finish", "ready">>
                 /\ syncSignal \in resolvedSignals'
                 /\ syncs'[s].resolved = syncSignal
            /\ (Resumes(s) /\ syncs[s].auto /\ syncs'[s].pc # "rejected") =>
                 \/ syncs'[s].pc = "fetch"
                 \/ \E t \in SyncIds \ {s} :
                      syncs[t].live /\ syncs[t].fetch # "none"
       /\ (Connects /\ connected = "false" /\ Completed # {})
            => StartsSync]_vars

(* A sync whose fetch and discovery were both rejected has run to its end
   and resolved its signal, and the sync started on the next connect has
   asked for the blue score. *)
C14_Witness ==
    \E s \in Completed, t \in SyncIds :
        /\ syncs[s].fetch = "failed"
        /\ discoveries[s].pc = "failed"
        /\ syncs[s].signal \in resolvedSignals
        /\ syncs[t].auto
        /\ syncs[t].fetch # "none"

(* C15: a sync call resuming with syncOnce = true while wallet.syncOnce is
   false is rejected and has issued no request, registered no
   subscription and derived no address; a call in any other case passes
   the guard, so sync(false) is never rejected. *)
C15_OneShotRejectedWhileContinuous ==
    [][\A s \in SyncIds :
         Resumes(s) =>
           IF syncOnce = "false" /\ syncs[s].arg = "true"
           THEN /\ syncs'[s].pc = "rejected"
                /\ syncs'[s].requests = 0
                /\ discoveries'[s] = discoveries[s]
                /\ UNCHANGED <<blueScoreSubscriptions, utxoSubscriptions,
                               receiveAddress, changeAddress,
                               syncVirtualSelectedParentBlueScoreStarted>>
           ELSE syncs'[s].pc \in {"fetch", "discovery"}]_vars

(* A one-shot sync has been rejected while the last sync was continuous. *)
C15_Witness ==
    \E s \in SyncIds :
        /\ syncs[s].pc = "rejected"
        /\ syncs[s].arg = "true"
        /\ syncs[s].requests = 0
        /\ syncOnce = "false"

(* C16 as stated: every connect resolves the connect signal and emits
   api-connect, and starts a sync in the previous mode exactly when a
   previous sync has completed. *)
C16_AutoSyncAfterCompleted ==
    [][Connects =>
         /\ connectSignal'
         /\ emitted' = <<"api-connect">>
         /\ StartsSync <=> (Completed # {})]_vars

(* C16: every connect resolves the connect signal and emits api-connect,
   and starts a sync in the previous mode exactly when sync has been
   called before and the connect is not the first one. *)
C16_AutoSyncAfterSyncCalled ==
    [][Connects =>
         /\ connectSignal'
         /\ emitted' = <<"api-connect">>
         /\ StartsSync <=> (syncSignal # 0 /\ connected # "undefined")]_vars

(* A connect has started a sync while an earlier sync call, the only one
   so far, is still in flight. *)
C16_Witness ==
    /\ emitted = <<"api-connect">>
    /\ Completed = {}
    /\ \E s, t \in SyncIds :
         /\ syncs[t].auto
         /\ syncs[t].pc = "connect"
         /\ ~syncs[s].auto
         /\ syncs[s].pc \in {"fetch", "discovery", "subscribe"}

(* C17: when a continuous sync started on the current connection has run
   to its end and every blue-score fetch asked for since the connection
   was made has succeeded, a blue-score subscription is registered. *)
C17_ContinuousSyncSubscribes ==
    \A s \in Completed :
        (/\ ~syncs[s].once
         /\ syncs[s].live
         /\ connected = "true"
         /\ \A t \in SyncIds :
              syncs[t].live => syncs[t].fetch \in {"none", "ok"}
         /\ \E t \in SyncIds : syncs[t].live /\ syncs[t].fetch = "ok")
            => blueScoreSubscriptions >= 1


----------------------------------------------------------------------------
(* Properties of the UTXO collections, checked under SpecSync *)

(* C21: between wallet operations a known output is in confirmed exactly
   when the wallet's blue score has reached its block's blue score plus the
   maturity, and in pending otherwise; also for outputs findUtxos added
   while the blue score was still -1, and after every fetch and every
   blue-score notification. *)
C21_ConfirmedIffMature ==
    /\ confirmed \cap pending = {}
    /\ \A o \in confirmed \cup pending :
         o \in confirmed <=> IsMatureAt(o, blueScore, utxoInfo)

(* Outputs were added while the blue score was -1, a later fetch has
   delivered the score and refiled them: one has matured, one has not. *)
C21_Witness ==
    /\ blueScore = InitBlueScore
    /\ emitted = <<"blue-score-changed", "balance-update">>
    /\ confirmed # {}
    /\ pending # {}
    /\ utxoStorage # {}


----------------------------------------------------------------------------
(* The in-use list across builds, submits, the cache and the node's UTXO
   notifications *)

(* The part of the cache getter that restoreCache reads back. *)
Cache == [utxos |-> [inUse |-> inUse]]

(* The caches a caller may hold from an earlier session of this wallet. *)
Caches ==
    {[utxos |-> [inUse |-> <<>>]]} \cup
    {[utxos |-> [inUse |-> <<o>>]] : o \in Outpoints}

(* restoreCache(cache): this.utxoSet.inUse = cache.utxos.inUse *)
RestoreCache(cache) ==
    /\ inUse' = cache.utxos.inUse
    /\ emitted' = <<>>
    /\ UNCHANGED <<identityVars, managerVars, utxoInfo, confirmed, pending, used, balance, blueScore,
                   defaultFee, changeAddress, lastAddressNotification,
                   txStore, calls, rpcTxs>>
    /\ UNCHANGED lifecycleVars

(* clearUsedUTXOs(): utxoSet.clearUsed() empties used and inUse
   (spec 4.2). *)
ClearUsedUTXOs ==
    /\ used # {} \/ inUse # <<>>
    /\ used' = {}
    /\ inUse' = <<>>
    /\ emitted' = <<>>
    /\ UNCHANGED <<identityVars, managerVars, utxoInfo, confirmed, pending, balance, blueScore,
                   defaultFee, changeAddress, lastAddressNotification,
                   txStore, calls, rpcTxs>>
    /\ UNCHANGED lifecycleVars

(* The node's UTXO-change notification reaches the subscribed wallet
   (spec 4.2, 6): the additions are filed by maturity, then the removals
   are deleted from the keyed collections and from inUse, then the balance
   is emitted. *)
UtxosChanged(added, removed) ==
    /\ utxoSubscriptions > 0
    /\ added \cup removed # {}
    /\ added \cap (confirmed \cup pending \cup used) = {}
    /\ removed \subseteq confirmed \cup pending \cup used
    /\ LET conf == (confirmed \cup {o \in added :
                                      IsMatureAt(o, blueScore, utxoInfo)})
                   \ removed
           pend == (pending \cup {o \in added :
                                    ~IsMatureAt(o, blueScore, utxoInfo)})
                   \ removed
           bal == [available |-> SumSat(conf, utxoInfo),
                   pending |-> SumSat(pend, utxoInfo)]
       IN /\ confirmed' = conf
          /\ pending' = pend
          /\ used' = used \ removed
          /\ inUse' = SelectSeq(inUse, LAMBDA o : o \notin removed)
          /\ balance' = bal
          /\ emitted' = IF bal # balance THEN <<"balance-update">> ELSE <<>>
    /\ UNCHANGED <<identityVars, managerVars, utxoInfo, blueScore, defaultFee, changeAddress,
                   lastAddressNotification, txStore, calls, rpcTxs>>
    /\ UNCHANGED lifecycleVars

(* A notification reports one output, added or removed. *)
UtxoChanges ==
    {[added |-> {o}, removed |-> {}] : o \in Outpoints} \cup
    {[added |-> {}, removed |-> {o}] : o \in Outpoints}

(* SpecCache: the synced wallet of Spec, whose caller also saves and
   restores the cache and clears the used outputs, while the node reports
   outputs added and removed. *)
InitCache ==
    \E info \in [Outpoints -> [satoshis : SubmitSatValues,
                               blockBlueScore : {0, InitBlueScore}]] :
        Synced(info, InitBlueScore, 1)

NextCache ==
    \/ \E op \in {"build", "submit"}, p \in SubmitParams : Invoke(1, op, p)
    \/ Estimate(1)
    \/ BuildFinish(1)
    \/ SubmitAccepted(1)
    \/ SubmitNoTxid(1)
    \/ SubmitRejected(1)
    \/ \E cache \in Caches : RestoreCache(cache)
    \/ ClearUsedUTXOs
    \/ \E ch \in UtxoChanges : UtxosChanged(ch.added, ch.removed)

SpecCache == InitCache /\ [][NextCache]_vars

(* C22: after any sequence of submitTransaction, buildTransaction,
   restoreCache, clearUsedUTXOs and UTXO added/removed notifications, every
   outpoint in utxoSet.inUse is a key of confirmed or of pending. *)
C22_InUseIsKnown == Range(inUse) \subseteq confirmed \cup pending


----------------------------------------------------------------------------
(* Wallet.compoundUTXOs *)

(* The address of a change index, as toAddr carries it. *)
ChangeAddr(i) == "change/" \o ToString(i)

(* txParamsArg of compoundUTXOs *)
CompoundParams(toAddr, UTXOMaxCount, fee, networkFeeMax) ==
    [NoParams EXCEPT !.toAddr = toAddr, !.amount = -1, !.fee = fee,
                     !.networkFeeMax = networkFeeMax,
                     !.compoundingUTXO = TRUE,
                     !.compoundingUTXOMaxCount = UTXOMaxCount]

(* compoundUTXOs({UTXOMaxCount, networkFeeMax, fee}): derive the next
   change address, whose new-address event reaches the wallet's handler,
   and call submitTransaction, which runs to `await this.waitOrSync()`. *)
CompoundUTXOs(c, UTXOMaxCount, fee, networkFeeMax) ==
    /\ calls[c].pc = "idle"
    /\ changeAddress' = ChangeNext(changeAddress)
    /\ \E ea \in {EmitAddresses(lastAddressNotification,
                                <<ChangeNext(changeAddress).cursor>>)} :
         /\ lastAddressNotification' = ea.last
         /\ emitted' = ea.events
    /\ calls' = [calls EXCEPT ![c] =
         [NoCall EXCEPT
            !.op = "submit", !.pc = "start",
            !.p = [CompoundParams(ChangeAddr(ChangeNext(changeAddress).cursor),
                                  UTXOMaxCount, fee, networkFeeMax)
                     EXCEPT !.skipUTXOInUseMark = TRUE]]]
    /\ UNCHANGED <<identityVars, managerVars, utxoInfo, confirmed, pending, used, inUse, balance,
                   blueScore, defaultFee, txStore, rpcTxs>>
    /\ UNCHANGED lifecycleVars

(* SpecCompound: compoundUTXOs called once on a synced wallet, for every
   UTXOMaxCount, over outputs of which some may still be pending. *)
CompoundSatValues == {400, 2000}
CompoundFees == {0, 100}
CompoundFeeMax == {0, 300}

InitCompound ==
    \E info \in [Outpoints -> [satoshis : CompoundSatValues,
                               blockBlueScore : {0, InitBlueScore}]],
       feePerByte \in EstDefaultFees :
        Synced(info, InitBlueScore, feePerByte)

NextCompound ==
    \/ \E k \in 1..NumUtxos, fee \in CompoundFees, m \in CompoundFeeMax :
          CompoundUTXOs(1, k, fee, m)
    \/ Estimate(1)
    \/ BuildFinish(1)
    \/ SubmitAccepted(1)
    \/ SubmitNoTxid(1)
    \/ SubmitRejected(1)

SpecCompound == InitCompound /\ [][NextCompound]_vars

(* The transactions call c has handed to the node. *)
Submitted(c) == {t \in rpcTxs : t.call = c}

(* The compounding calls on more confirmed outputs than UTXOMaxCount. *)
Compounding ==
    {c \in CallIds : /\ calls[c].p.compoundingUTXO
                     /\ Cardinality(confirmed) >
                            calls[c].p.compoundingUTXOMaxCount}

(* The UTXOMaxCount largest confirmed outputs. *)
LargestConfirmed(c) ==
    Range(FirstN(SortDesc(confirmed, utxoInfo),
                 calls[c].p.compoundingUTXOMaxCount))

(* C23: compoundUTXOs(UTXOMaxCount = k) on a wallet with more than k
   confirmed outputs hands the node one transaction and no more; its
   inputs are the k largest confirmed outputs, also after the fee loop has
   selected them again; its one output pays their sum less the fee to the
   change address compoundUTXOs has just derived; it has no change
   output.  A call whose build fails hands the node nothing. *)
C23_CompoundSpendsLargest ==
    \A c \in Compounding :
        /\ Cardinality(Submitted(c)) <= 1
        /\ calls[c].pc \in {"rpc", "done", "null"} =>
             /\ Cardinality(Submitted(c)) = 1
             /\ Len(calls[c].res.fees) >= 2
             /\ \A t \in Submitted(c) :
                  /\ t.inputs = LargestConfirmed(c)
                  /\ t.inputs = Range(calls[c].res.utxoIds)
                  /\ t.fee = calls[c].res.fee
                  /\ t.outputs = SumSat(LargestConfirmed(c), utxoInfo) - t.fee
             /\ calls[c].res.tx.amount =
                  SumSat(LargestConfirmed(c), utxoInfo) - calls[c].res.fee
             /\ calls[c].res.tx.change = 0
             /\ NumOutputs(calls[c].res.tx) = 1
             /\ calls[c].p.toAddr = ChangeAddr(calls[c].before)
             /\ calls[c].before >= 1
        /\ calls[c].pc \in {"start", "failed"} /\ calls[c].res.err # "rpc" =>
             Submitted(c) = {}

(* compoundUTXOs(2) on three confirmed outputs of different size has been
   accepted by the node: the smallest output is left out. *)
C23_Witness ==
    \E c \in Compounding :
        /\ calls[c].pc = "done"
        /\ calls[c].p.compoundingUTXOMaxCount = 2
        /\ Cardinality(confirmed) = 3
        /\ \E o \in confirmed \ LargestConfirmed(c) :
             \A x \in LargestConfirmed(c) :
                utxoInfo[o].satoshis < utxoInfo[x].satoshis
        /\ Len(calls[c].res.fees) >= 2
        /\ Range(inUse) = LargestConfirmed(c)


----------------------------------------------------------------------------
(* Properties of overlapping and rejected syncs, checked under SpecSync *)

(* C25: a continuous sync that has completed has invoked
   utxoSet.utxoSubscribe exactly once, in its own run or in that of its
   address discovery, also when the discovery failed or syncs overlapped;
   a one-shot sync has never invoked it. *)
C25_SubscribesOncePerSync ==
    \A s \in Completed :
        syncs[s].subscribes = IF syncs[s].once THEN 0 ELSE 1


(* The sync calls the guard has rejected. *)
Rejected == {s \in SyncIds : syncs[s].pc = "rejected"}

(* No sync call is between its entry and its end. *)
NoSyncInFlight ==
    \A s \in SyncIds : syncs[s].pc \in {"idle", "done", "rejected"}

(* C27: a sync call the guard has rejected leaves the wallet as it was:
   once no other sync is in flight the wallet is not marked as syncing,
   and the sync signal waitOrSync returns is not one that is never
   resolved. *)
C27_RejectedSyncLeavesNoTrace ==
    (Rejected # {} /\ NoSyncInFlight) =>
        /\ ~syncInProggress
        /\ syncSignal \in resolvedSignals


(* C28: whatever the interleaving of sync calls, a sync that completes
   resolves the very signal it created on entry, so that a waitOrSync
   promise is released when, and not before, the sync that created it has
   emitted sync-finish. *)
C28_SyncResolvesOwnSignal ==
    \A s \in Completed : syncs[s].resolved = syncs[s].signal


(* The syncs between their sync-start and the end of their address
   discovery: waiting for the blue score or for getUtxosByAddresses. *)
Discovering ==
    {s \in SyncIds :
        \/ syncs[s].pc = "fetch"
        \/ syncs[s].pc = "discovery" /\ discoveries[s].pc = "rpc"}

(* C29: syncInProggress is true at every moment at which some sync is
   between its sync-start and the end of its address discovery, also when
   syncs overlap, so that neither adjustBalance nor the new-address
   handler notifies during that phase of any sync. *)
C29_SyncingWhileDiscovering == Discovering # {} => syncInProggress


----------------------------------------------------------------------------
(* The change indices a call consumes, checked under SpecEstimate *)

(* C30: a successful estimateTransaction, buildTransaction or
   submitTransaction without changeAddrOverride consumes at most one new
   change-address index, however many rounds the fee loop runs: its next()
   calls less its reverse() calls are at most one; with changeAddrOverride
   it consumes none. *)
C30_AtMostOneChangeIndex ==
    \A c \in Estimated :
        calls[c].res.ok =>
            IF calls[c].p.changeAddrOverride
            THEN /\ calls[c].res.next = 0
                 /\ calls[c].res.ca.counter = calls[c].before
            ELSE /\ calls[c].res.next - calls[c].res.rev <= 1
                 /\ calls[c].res.ca.counter - calls[c].before <= 1


----------------------------------------------------------------------------
(* SpecIdentity: wallets made with new Wallet, fromMnemonic and import,
   from every key and phrase in play, exported and imported again. *)

Passwords == {"pw1", "pw2"}

InitIdentity ==
    /\ ConstructedWallet(
         [o \in Outpoints |-> [satoshis |-> 400, blockBlueScore |-> 0]],
         [o \in Outpoints |-> <<"receive", 0>>])
    /\ exported = [e \in ExportIds |-> NoExport]
    /\ \E privKey \in {""} \cup {Xprv(k) : k \in Keys},
          seedPhrase \in {""} \cup Phrases,
          network \in Networks,
          generated \in {"abandon ability", "zoo zone"} :
         wallets = [w \in WalletIds |->
                      IF w = 1
                      THEN Constructor(privKey, seedPhrase, network, generated)
                      ELSE NoWallet]

NextIdentity ==
    \/ \E w \in WalletIds, seedPhrase \in Phrases, network \in Networks :
          FromMnemonic(w, seedPhrase, network)
    \/ \E e \in ExportIds, w \in WalletIds, password \in Passwords :
          ExportCall(e, w, password)
    \/ \E w \in WalletIds, e \in ExportIds, password \in Passwords,
          network \in Networks :
          Import(w, e, password, network, "zoo zone")

SpecIdentity == InitIdentity /\ [][NextIdentity]_vars

(* The wallets made by import, and the wallet whose export each read. *)
Imported == {j \in WalletIds : wallets[j].how = "import"}

Origin(j) == wallets[exported[wallets[j].from].of]

(* What an exported string decrypts to under its password. *)
Plain(e) == Parse(Decrypt(exported[e].password, exported[e].data).text)

(* C24: importing w.export(p) with the same password and network yields a
   wallet with the same seed phrase, HD private key and uid, and every
   export of the imported wallet decrypts to the same {privKey,
   seedPhrase} as the string it was imported from. *)
C24_ExportImportRoundTrip ==
    \A j \in Imported :
        /\ wallets[j].password = exported[wallets[j].from].password
        /\ wallets[j].mnemonic = Origin(j).mnemonic
        /\ wallets[j].HDWallet = Origin(j).HDWallet
        /\ wallets[j].network = Origin(j).network =>
              wallets[j].uid = Origin(j).uid
        /\ \A e \in ExportIds :
              (exported[e].made /\ exported[e].of = j) =>
                 /\ Plain(e) = Plain(wallets[j].from)
                 /\ Plain(e) = [privKey |-> Xprv(Origin(j).HDWallet),
                                seedPhrase |-> Origin(j).mnemonic]

(* A wallet made from a phrase with spaces around has been exported,
   imported on the same network and exported again. *)
C24_Witness ==
    \E j \in Imported, e \in ExportIds :
        /\ exported[e].made
        /\ exported[e].of = j
        /\ wallets[j].network = Origin(j).network
        /\ Origin(j).how = "fromMnemonic"
        /\ Origin(j).mnemonic # Trim(Origin(j).mnemonic)

----------------------------------------------------------------------------
(* The address manager's new-address event and its handler: updateNetwork,
   demolishWalletState, initAddressManager *)

(* An address of an address manager: the manager it came from, its chain
   and its index. *)
Address(kind, index) == <<addressManager.instance, kind, index>>

(* utxoSet.clear(): the collections, inUse and utxoStorage are emptied. *)
Clear ==
    /\ confirmed' = {}
    /\ pending' = {}
    /\ used' = {}
    /\ inUse' = <<>>
    /\ utxoStorage' = {}

(* demolishWalletState(networkPrefix): the UTXO set is cleared and a new
   address manager replaces the old one; addressManagerInitialized stays
   as it was, so no handler is put on the new manager. *)
DemolishWalletState ==
    /\ Clear
    /\ addressManager' = [instance |-> addressManager.instance + 1,
                          listening |-> FALSE]
    /\ receiveAddress' = [counter |-> 0, cursor |-> 0]
    /\ changeAddress' = [counter |-> 0, cursor |-> 0]
    /\ UNCHANGED <<addressManagerInitialized, options, addressSyncs>>

(* updateNetwork(network) *)
UpdateNetwork(prefix) ==
    /\ addressManager.instance < MaxManagers
    /\ DemolishWalletState
    /\ wallets' = [wallets EXCEPT ![1].network = prefix]
    /\ emitted' = <<>>
    /\ notified' = <<>>
    /\ UNCHANGED <<utxoInfo, balance, blueScore, defaultFee,
                   lastAddressNotification, txStore, calls, rpcTxs,
                   balanceTotal, lastBalanceNotification,
                   disableBalanceNotifications, syncInProggress, history,
                   batches, lastReceiveNotification, owner, discoveries,
                   syncVars, exported>>

(* The chains after next() on one of them. *)
ChainsAfter(kind) ==
    [receive |-> IF kind = "receive" THEN ChangeNext(receiveAddress)
                 ELSE receiveAddress,
     change |-> IF kind = "change" THEN ChangeNext(changeAddress)
                ELSE changeAddress]

(* The addresses the new-address handler hands to syncAddressesUtxos: the
   one of the event, unless options.skipSyncBalance is set. *)
Scanned(address) == IF options.skipSyncBalance THEN {} ELSE {address}

(* addressManager.receiveAddress.next() or changeAddress.next() called on
   the wallet's address manager: the manager raises new-address for the
   derived address, and the wallet's handler runs when it is on this
   manager: emitAddress() unless a sync is in progress, then
   syncAddressesUtxos([address]) unless skipSyncBalance. *)
AddressNext(kind) ==
    /\ (IF kind = "receive" THEN receiveAddress ELSE changeAddress).counter
          < MaxIndex
    /\ \E after \in {ChainsAfter(kind)} :
         /\ receiveAddress' = after.receive
         /\ changeAddress' = after.change
         /\ IF addressManager.listening
            THEN /\ IF syncInProggress
                       \/ (after.receive.cursor = lastReceiveNotification
                           /\ after.change.cursor = lastAddressNotification)
                    THEN /\ emitted' = <<>>
                         /\ UNCHANGED <<lastReceiveNotification,
                                        lastAddressNotification>>
                    ELSE /\ emitted' = <<"new-address">>
                         /\ lastReceiveNotification' = after.receive.cursor
                         /\ lastAddressNotification' = after.change.cursor
                 /\ addressSyncs' = addressSyncs \cup
                      Scanned(Address(kind, (IF kind = "receive"
                                             THEN after.receive
                                             ELSE after.change).cursor))
            ELSE /\ emitted' = <<>>
                 /\ UNCHANGED <<lastReceiveNotification,
                                lastAddressNotification, addressSyncs>>
    /\ notified' = <<>>
    /\ UNCHANGED <<utxoInfo, confirmed, pending, used, inUse, balance,
                   blueScore, defaultFee, txStore, calls, rpcTxs,
                   balanceTotal, lastBalanceNotification,
                   disableBalanceNotifications, syncInProggress, history,
                   batches, owner, utxoStorage, discoveries, syncVars,
                   identityVars, addressManager, addressManagerInitialized,
                   options>>

(* A connected wallet, constructed with or without skipSyncBalance, that is
   synced, moved to another network and asked for fresh addresses. *)
InitManager ==
    /\ ConnectedWallet([o \in Outpoints |->
                          [satoshis |-> 400, blockBlueScore |-> 0]],
                       [o \in Outpoints |-> <<"receive", 0>>])
    /\ addressManager = [instance |-> 1, listening |-> FALSE]
    /\ addressManagerInitialized = FALSE
    /\ options \in [skipSyncBalance : BOOLEAN]
    /\ addressSyncs = {}

NextManager ==
    \/ \E arg \in {"true", "false"} : SyncCall(1, arg)
    \/ SyncConnected(1)
    \/ BlueScoreFetched(1)
    \/ UtxosReturned(1)
    \/ SyncDiscovered(1)
    \/ SyncSubscribed(1)
    \/ \E prefix \in Networks : UpdateNetwork(prefix)
    \/ \E kind \in Chains : AddressNext(kind)

SpecManager == InitManager /\ [][NextManager]_vars

(* The address a next() on the chain raises new-address for. *)
Raised(kind) ==
    Address(kind, (IF kind = "receive" THEN receiveAddress
                   ELSE changeAddress).counter + 1)

(* C26: once a sync has initialised the address manager, each new-address
   event raised by the wallet's current address manager makes the wallet
   scan exactly that address unless skipSyncBalance is set, and the wallet
   emits new-address only when no sync is in progress and the (receive,
   change) pair differs from the one notified last; also after
   updateNetwork has replaced the address manager. *)
C26_NewAddressHandled ==
    [][\A kind \in Chains :
          (addressManagerInitialized /\ AddressNext(kind)) =>
             /\ Scanned(Raised(kind)) \subseteq addressSyncs'
             /\ addressSyncs' \subseteq addressSyncs \cup {Raised(kind)}
             /\ emitted' = <<"new-address">> =>
                  /\ ~syncInProggress
                  /\ <<receiveAddress'.cursor, changeAddress'.cursor>> #
                       <<lastReceiveNotification, lastAddressNotification>>
      ]_vars

====
